---- MODULE Spec2Model ----
(***************************************************************************)
(* Model of utilities/release-status (the release checklist: main,         *)
(* ReleasePreparer.run and the ReleaseStep classes) of MAAS.               *)
(*                                                                         *)
(* Python strings are sequences of tokens.  Version strings, file names    *)
(* and git output are kept at character level (one token per character);   *)
(* architecture, package and remote names are single tokens.               *)
(***************************************************************************)
EXTENDS Integers, Sequences, FiniteSets, TLC

VARIABLES
    argv_version,   \* args.version, the positional argument of the command line
    macaroon_file,  \* contents of release.macaroon ("absent", "nosection", "ok")
    pc,             \* position of main / ReleasePreparer.run
    preparer,       \* the ReleasePreparer object (NoPreparer before construction)
    steps,          \* preparer.steps
    idx,            \* index of `step` in the for loop of run
    success,        \* local `success` of run
    message,        \* local `message` of run
    all_good,       \* local `all_good` of run
    lineno,         \* index of `line` in the inner for loop of run
    stdout,         \* everything printed to stdout, in order
    stderr,         \* everything printed to stderr, in order
    exit,           \* the way main ended: return value or escaped exception
    evaluated,      \* evaluated[k]: number of times steps[k].check() was called
    results,        \* results[k]: what steps[k].check() returned
    last_input,     \* the external state the check() that just ended observed
    last_outcome,   \* the outcome of the check() that just ended
    deviations,     \* number of checks that observed a non-nominal external state
    arg,            \* the arguments a function is called with on its own
    ret,            \* what that call gave
    field,          \* scope.field of a maasPowerInput directive
    parameters,     \* ngModel.parameters of the parent scope, by field name
    ngModel,        \* scope.ngModel of the directive's isolate scope
    lastValue,      \* lastValue of the '=' binding of scope.ngModel
    element         \* the directive's element: not linked, replaced, or link threw

\* the state of a run of release-status
main_vars == <<argv_version, macaroon_file, pc, preparer, steps, idx, success,
               message, all_good, lineno, stdout, stderr, exit, evaluated,
               results, last_input, last_outcome, deviations>>
\* the state of a function called on its own
call_vars == <<arg, ret>>
\* the state of a maasPowerInput directive
directive_vars == <<field, parameters, ngModel, lastValue, element>>

vars == <<main_vars, call_vars, directive_vars>>

-----------------------------------------------------------------------------
(* Bounds of the model.                                                    *)

\* At most this many checks of one run observe an external state other than
\* the nominal one (everything released); the other checks observe NominalInput.
MaxDeviations == 1

-----------------------------------------------------------------------------
(* str methods, on sequences of tokens.                                    *)

Last(s) == s[Len(s)]

StartsWith(s, p) == Len(p) <= Len(s) /\ SubSeq(s, 1, Len(p)) = p

EndsWith(s, p) == Len(p) <= Len(s) /\ SubSeq(s, Len(s) - Len(p) + 1, Len(s)) = p

\* `p in s`
Contains(s, p) == \E k \in 1..(Len(s) - Len(p) + 1) : SubSeq(s, k, k + Len(p) - 1) = p

\* s.find(p) + 1 (0 when absent)
Find(s, p) ==
    IF Contains(s, p)
    THEN CHOOSE k \in 1..(Len(s) - Len(p) + 1) :
            /\ SubSeq(s, k, k + Len(p) - 1) = p
            /\ \A j \in 1..(k - 1) : SubSeq(s, j, j + Len(p) - 1) # p
    ELSE 0

\* s.rfind(p) + 1 (0 when absent)
RFind(s, p) ==
    IF Contains(s, p)
    THEN CHOOSE k \in 1..(Len(s) - Len(p) + 1) :
            /\ SubSeq(s, k, k + Len(p) - 1) = p
            /\ \A j \in (k + 1)..(Len(s) - Len(p) + 1) : SubSeq(s, j, j + Len(p) - 1) # p
    ELSE 0

\* s.replace(old, new), old non-empty
RECURSIVE Replace(_, _, _)
Replace(s, old, new) ==
    IF ~Contains(s, old) THEN s
    ELSE LET k == Find(s, old)
         IN SubSeq(s, 1, k - 1) \o new
                \o Replace(SubSeq(s, k + Len(old), Len(s)), old, new)

\* s.split(sep)
RECURSIVE Split(_, _)
Split(s, sep) ==
    IF ~Contains(s, sep) THEN <<s>>
    ELSE LET k == Find(s, sep)
         IN <<SubSeq(s, 1, k - 1)>> \o Split(SubSeq(s, k + Len(sep), Len(s)), sep)

\* s.split(sep, 1)
SplitOnce(s, sep) ==
    IF ~Contains(s, sep) THEN <<s>>
    ELSE LET k == Find(s, sep)
         IN <<SubSeq(s, 1, k - 1), SubSeq(s, k + Len(sep), Len(s))>>

\* s.rsplit(sep, 1)
RSplitOnce(s, sep) ==
    IF ~Contains(s, sep) THEN <<s>>
    ELSE LET k == RFind(s, sep)
         IN <<SubSeq(s, 1, k - 1), SubSeq(s, k + Len(sep), Len(s))>>

IsSpace(c) == c \in {" ", "\n", "\t"}

\* s.strip()
RECURSIVE Strip(_)
Strip(s) ==
    IF s = <<>> THEN s
    ELSE IF IsSpace(s[1]) THEN Strip(Tail(s))
    ELSE IF IsSpace(s[Len(s)]) THEN Strip(SubSeq(s, 1, Len(s) - 1))
    ELSE s

-----------------------------------------------------------------------------
(* Values of the Python program.                                           *)

\* a function call that returned `v`
Val(v) == [raised |-> FALSE, value |-> v, error |-> ""]
\* a function call that raised the exception `e`
Exc(e) == [raised |-> TRUE, value |-> <<>>, error |-> e]

\* one line of text: a fixed wording with the strings formatted into it
Line(t, args) == [t |-> t, args |-> args]

\* the `message` of a check result: None, or a string split into its lines
None == [none |-> TRUE, lines |-> <<>>]
Msg(lines) == [none |-> FALSE, lines |-> lines]
\* `if message:` -- None and "" are falsy
Truthy(m) == ~m.none /\ m.lines # <<>>

\* check() returned the tuple (succeeded, message)
Ret(s, m) == [kind |-> "return", succeeded |-> s, message |-> m, error |-> ""]
\* check() raised
Raise(e) == [kind |-> "raise", succeeded |-> FALSE, message |-> None, error |-> e]

Amd64 == <<"amd64">>
Arm64 == <<"arm64">>
Ppc64el == <<"ppc64el">>
S390x == <<"s390x">>
BUILD_ARCHS == <<Amd64, Arm64, Ppc64el, S390x>>
BuildArchSet == {BUILD_ARCHS[k] : k \in 1..Len(BUILD_ARCHS)}

\* sorted(S) for a set S of build architectures (BUILD_ARCHS is in sorted order)
SortedArchs(S) == SelectSeq(BUILD_ARCHS, LAMBDA a : a \in S)

\* ', '.join(archs)
JoinArchs(archs) ==
    LET RECURSIVE J(_)
        J(k) == IF k > Len(archs) THEN <<>>
                ELSE (IF k = 1 THEN <<>> ELSE <<", ">>) \o archs[k] \o J(k + 1)
    IN J(1)

get_macaroon_refresh_help ==
    << Line("  Please refresh it:", <<>>),
       Line("    rm -f release.macaroon", <<>>),
       Line("    snapcraft export-login --snaps maas,maas-test-db \\", <<>>),
       Line("        --acls package_release,package_access release.macaroon", <<>>) >>

-----------------------------------------------------------------------------
(* Version helpers.                                                        *)

get_major_version(version) == RSplitOnce(version, <<".">>)[1]

\* get_version_grade taking every unknown suffix for a final release
get_version_grade_lenient(version) ==
    IF ~Contains(version, <<"-">>) THEN Val("final")
    ELSE LET version_suffix == Split(version, <<"-">>)[2]
         IN IF StartsWith(version_suffix, <<"b", "e", "t", "a">>) THEN Val("beta")
            ELSE IF StartsWith(version_suffix, <<"r", "c">>) THEN Val("rc")
            ELSE Val("final")

\* get_version_grade looking at the part after the last '-'
get_version_grade_last_suffix(version) ==
    IF ~Contains(version, <<"-">>) THEN Val("final")
    ELSE LET version_suffix == Last(Split(version, <<"-">>))
         IN IF StartsWith(version_suffix, <<"b", "e", "t", "a">>) THEN Val("beta")
            ELSE IF StartsWith(version_suffix, <<"r", "c">>) THEN Val("rc")
            ELSE Exc("RuntimeError: Unknown version suffix")

get_version_grade(version) ==
    IF ~Contains(version, <<"-">>) THEN Val("final")
    ELSE LET version_suffix == Split(version, <<"-">>)[2]
         IN IF StartsWith(version_suffix, <<"b", "e", "t", "a">>) THEN Val("beta")
            ELSE IF StartsWith(version_suffix, <<"r", "c">>) THEN Val("rc")
            ELSE Exc("RuntimeError: Unknown version suffix")

\* get_snap_release_channel releasing the release candidates to stable
get_snap_release_channel_rc_stable(version) ==
    LET major_version == get_major_version(version)
        version_grade == get_version_grade(version)
    IN IF version_grade.raised THEN version_grade
       ELSE IF version_grade.value \in {"final", "rc"}
            THEN Val(major_version \o <<"/", "stable">>)
       ELSE IF version_grade.value = "beta"
            THEN Val(major_version \o <<"/", "beta">>)
       ELSE Exc("RuntimeError: Unknown version grade")

get_snap_release_channel(version) ==
    LET major_version == get_major_version(version)
        version_grade == get_version_grade(version)
    IN IF version_grade.raised THEN version_grade
       ELSE IF version_grade.value = "final"
            THEN Val(major_version \o <<"/", "stable">>)
       ELSE IF version_grade.value = "rc"
            THEN Val(major_version \o <<"/", "candidate">>)
       ELSE IF version_grade.value = "beta"
            THEN Val(major_version \o <<"/", "beta">>)
       ELSE Exc("RuntimeError: Unknown version grade")

-----------------------------------------------------------------------------
(* The snap store: HTTP responses and get_macaroon_auth_error.             *)
(* A response is [status_code, json, has_error_list, error_list,           *)
(* revisions, text]: json is "invalid" (the body is no JSON document),     *)
(* "dict" (an object whose only possible key is error_list) or "list" (the *)
(* list `revisions`); text is res.text split into lines.                   *)

NeedsRefresh == "macaroon-needs-refresh"
PermissionRequired == "macaroon-permission-required"

\* the loop `for error in result.get("error_list", [])`, from entry k on;
\* `text` is the value error_message holds before the loop
RECURSIVE auth_error_loop(_, _, _, _)
auth_error_loop(error_list, k, snap_name, text) ==
    IF k > Len(error_list) THEN Val(Msg(text))
    ELSE LET error == error_list[k]
         IN IF error.code = NeedsRefresh
            THEN Val(Msg(<<Line("Macaroon has expired.", <<>>)>>
                         \o get_macaroon_refresh_help))
            ELSE IF error.code = PermissionRequired
            THEN IF ~error.has_extra
                 THEN Exc("KeyError")
                 ELSE Val(Msg(<<Line("Macaroon doesn't have {} for {}.",
                                     <<error.permission, snap_name>>)>>
                              \o get_macaroon_refresh_help))
            ELSE auth_error_loop(error_list, k + 1, snap_name, text)

get_macaroon_auth_error(res, snap_name) ==
    IF res.status_code \in {200, 404} THEN Val(None)
    ELSE IF res.status_code \in {401, 403}
    THEN IF res.json = "invalid" THEN Exc("JSONDecodeError")
         ELSE IF res.json = "list" THEN Exc("AttributeError")
         ELSE auth_error_loop(IF res.has_error_list THEN res.error_list ELSE <<>>,
                              1, snap_name, res.text)
    ELSE Val(Msg(res.text))

SnapTrack_check(p, step, res) ==
    LET auth_error == get_macaroon_auth_error(res, step.snap_name)
    IN IF auth_error.raised THEN Raise(auth_error.error)
       ELSE Ret(res.status_code = 200, auth_error.value)

\* the loop `for revision in res.json()` over a list body, from entry k on;
\* rmap is revision_map: for each build architecture the revisions kept so far
RECURSIVE revisions_loop(_, _, _, _)
revisions_loop(p, revisions, k, rmap) ==
    IF k > Len(revisions) THEN Val(rmap)
    ELSE LET revision == revisions[k]
             version == revision.version
         IN IF ~StartsWith(version, Replace(p.version, <<"-">>, <<"~">>))
            THEN revisions_loop(p, revisions, k + 1, rmap)
            ELSE IF ~EndsWith(version, p.git_short_rev)
            THEN revisions_loop(p, revisions, k + 1, rmap)
            ELSE IF revision.arch \notin DOMAIN rmap
            THEN Exc("KeyError")
            ELSE revisions_loop(p, revisions, k + 1,
                    [rmap EXCEPT ![revision.arch] = Append(@, revision)])

\* returns the pair (revision_map, error_message) as [map, error_message];
\* map.none stands for revision_map = None
SnapsUploaded_get_revisisions(p, step, res) ==
    LET auth_error == get_macaroon_auth_error(res, step.snap_name)
    IN IF auth_error.raised THEN auth_error
       ELSE IF Truthy(auth_error.value)
       THEN Val([none |-> TRUE, map |-> <<>>, error_message |-> auth_error.value])
       ELSE IF res.json = "invalid" THEN Exc("JSONDecodeError")
       ELSE IF res.json = "dict" /\ res.has_error_list THEN Exc("TypeError")
       ELSE LET looped == revisions_loop(p,
                              IF res.json = "list" THEN res.revisions ELSE <<>>,
                              1, [arch \in BuildArchSet |-> <<>>])
            IN IF looped.raised THEN looped
               ELSE Val([none |-> FALSE, map |-> looped.value, error_message |-> None])

\* max(revision["revision"] for revision in revisions)
MaxRevision(revisions) ==
    CHOOSE n \in {revisions[k].revision : k \in 1..Len(revisions)} :
        \A k \in 1..Len(revisions) : revisions[k].revision <= n

SnapsUploaded_check(p, step, res) ==
    LET got == SnapsUploaded_get_revisisions(p, step, res)
    IN IF got.raised THEN Raise(got.error)
       ELSE IF got.value.none THEN Ret(FALSE, got.value.error_message)
       ELSE LET revision_map == got.value.map
                missing_archs == SortedArchs({arch \in BuildArchSet :
                                                revision_map[arch] = <<>>})
            IN IF missing_archs # <<>>
               THEN Ret(FALSE, Msg(<<Line("Missing builds for: {}",
                                          <<JoinArchs(missing_archs)>>)>>))
               ELSE Ret(TRUE, Msg([k \in 1..Len(BUILD_ARCHS) |->
                        Line("Latest revision for {}: {}",
                             <<BUILD_ARCHS[k],
                               <<ToString(MaxRevision(revision_map[BUILD_ARCHS[k]]))>> >>)]))

SnapsInChannel_check(p, step, res) ==
    LET got == SnapsUploaded_get_revisisions(p, step, res)
    IN IF got.raised THEN Raise(got.error)
       ELSE IF got.value.none THEN Ret(FALSE, got.value.error_message)
       ELSE LET revision_map == got.value.map
                released_archs ==
                    {arch \in BuildArchSet :
                        \E k \in 1..Len(revision_map[arch]) :
                            \E c \in 1..Len(revision_map[arch][k].channels) :
                                revision_map[arch][k].channels[c] = step.channel}
                missing_archs == SortedArchs(BuildArchSet \ released_archs)
            IN IF missing_archs # <<>>
               THEN Ret(FALSE, Msg(<<Line("Missing releases for: {}",
                                          <<JoinArchs(missing_archs)>>)>>))
               ELSE Ret(TRUE, None)

-----------------------------------------------------------------------------
(* Launchpad archives.  An archive (PPA) is [processors, sources,          *)
(* binaries]: the names of its processors, its source publications         *)
(* [source_package_name, source_package_version, status, distro_series]    *)
(* and its binary publications [binary_package_name,                       *)
(* binary_package_version, status, distro_arch_series_link].               *)

Focal == <<"focal">>
Maas == <<"maas">>

\* ppa.getPublishedSources(status="Published", distro_series=series)
getPublishedSources(ppa, series) ==
    SelectSeq(ppa.sources,
              LAMBDA s : s.status = "Published" /\ s.distro_series = series)

\* ppa.getPublishedSources(source_name=name, status="Published", distro_series=series)
getPublishedSourcesNamed(ppa, name, series) ==
    SelectSeq(getPublishedSources(ppa, series),
              LAMBDA s : s.source_package_name = name)

\* ppa.getPublishedBinaries(binary_name=name, exact_match=True, status="Published")
getPublishedBinaries(ppa, name) ==
    SelectSeq(ppa.binaries,
              LAMBDA b : b.status = "Published" /\ b.binary_package_name = name)

NotFoundMessage(owner, name) ==
    Msg(<<Line("ppa:{}/{} couldn't be found.", <<owner, name>>)>>)

\* inp is [found, ppa]: whether getPPAByName found the archive, and the archive
MAASPPA_check(p, step, inp) ==
    IF ~inp.found THEN Ret(FALSE, NotFoundMessage(step.ppa_owner, step.ppa_name))
    ELSE LET ppa_archs == inp.ppa.processors
             missing_archs == SortedArchs(BuildArchSet \ ppa_archs)
         IN IF missing_archs # <<>>
            THEN Ret(FALSE, Msg(<<Line("Missing build architectures: {}",
                                       <<JoinArchs(missing_archs)>>)>>))
            ELSE Ret(TRUE, None)

\* the loop over the Published sources of source_ppa, from entry k on
RECURSIVE packages_copied_loop(_, _, _)
packages_copied_loop(source, k, target_packages) ==
    IF k > Len(source) THEN Ret(TRUE, None)
    ELSE LET name == source[k].source_package_name
             version == source[k].source_package_version
         IN IF ~\E j \in 1..Len(target_packages) :
                    target_packages[j] = <<name, version>>
            THEN Ret(FALSE, Msg(<<Line("{} {} has not been copied",
                                       <<name, version>>)>>))
            ELSE packages_copied_loop(source, k + 1, target_packages)

\* _check_packages_copied looking for the package name alone in the target
MAASPPA_check_packages_copied_by_name(current_series, source_ppa, target_ppa) ==
    LET published == getPublishedSources(target_ppa, current_series)
        source == getPublishedSources(source_ppa, current_series)
        missing == {k \in 1..Len(source) :
                        ~\E j \in 1..Len(published) :
                            published[j].source_package_name
                                = source[k].source_package_name}
    IN IF missing = {} THEN Ret(TRUE, None)
       ELSE LET k == CHOOSE m \in missing : \A n \in missing : m <= n
            IN Ret(FALSE, Msg(<<Line("{} {} has not been copied",
                                     <<source[k].source_package_name,
                                       source[k].source_package_version>>)>>))

MAASPPA_check_packages_copied(current_series, source_ppa, target_ppa) ==
    LET published == getPublishedSources(target_ppa, current_series)
        target_packages ==
            [k \in 1..Len(published) |->
                <<published[k].source_package_name,
                  published[k].source_package_version>>]
    IN packages_copied_loop(getPublishedSources(source_ppa, current_series),
                            1, target_packages)

\* returns whether the version matches, or raises
MAASPackagePublished_check_version(p, package_version) ==
    LET expected_package_version == Replace(p.version, <<"-">>, <<"~">>)
        no_epoch == IF Contains(package_version, <<":">>)
                    THEN Last(SplitOnce(package_version, <<":">>))
                    ELSE package_version
        version_parts == Split(no_epoch, <<"-">>)
    IN IF version_parts[1] # expected_package_version THEN Val(FALSE)
       ELSE IF Len(version_parts) < 3 THEN Exc("IndexError")
       ELSE Val(version_parts[3] = <<"g", ".">> \o p.git_short_rev)

\* the loop `for binary in binaries`, from entry k on; published is
\* published_architectures
RECURSIVE binaries_loop(_, _, _, _)
binaries_loop(p, binaries, k, published) ==
    IF k > Len(binaries) THEN Val(published)
    ELSE LET binary == binaries[k]
             arch == Last(Split(binary.distro_arch_series_link, <<"/">>))
             ok == MAASPackagePublished_check_version(p, binary.binary_package_version)
         IN IF ok.raised THEN ok
            ELSE binaries_loop(p, binaries, k + 1,
                               IF ok.value THEN published \cup {arch} ELSE published)

\* inp is [found, ppa]
MAASPackagePublished_check(p, step, inp) ==
    IF ~inp.found THEN Ret(FALSE, NotFoundMessage(step.ppa_owner, step.ppa_name))
    ELSE LET sources == getPublishedSourcesNamed(inp.ppa, Maas, step.current_series)
         IN IF sources = <<>>
            THEN Ret(FALSE, Msg(<<Line(
                    "Source package hasn't been published or uploaded yet.", <<>>)>>))
            ELSE IF Len(sources) # 1 THEN Raise("ValueError")
            ELSE
              LET package == sources[1]
                  source_ok == MAASPackagePublished_check_version(
                                    p, package.source_package_version)
                  binaries == getPublishedBinaries(inp.ppa, Maas)
                  looped == binaries_loop(p, binaries, 1, {})
                  non_published_architectures ==
                      SortedArchs(BuildArchSet \ looped.value)
              IN IF source_ok.raised THEN Raise(source_ok.error)
                 ELSE IF ~source_ok.value
                 THEN Ret(FALSE, Msg(<<Line(
                        "Currently published source version is {}. Expected {}",
                        <<package.source_package_version,
                          Replace(p.version, <<"-">>, <<"~">>)>>)>>))
                 ELSE IF binaries = <<>>
                 THEN Ret(FALSE, Msg(<<Line(
                        "Binary packages haven't been published yet.", <<>>)>>))
                 ELSE IF looped.raised THEN Raise(looped.error)
                 ELSE IF non_published_architectures # <<>>
                 THEN Ret(FALSE, Msg(<<Line("Binary package hasn't been published for: {}",
                                            non_published_architectures)>>))
                 ELSE Ret(TRUE, None)

\* inp is [source_found, source_ppa, found, ppa]: the lookups of
\* ppa:maas-committers/latest-deps and of the step's own archive
PackagesCopiedFromDeps_check(p, step, inp) ==
    IF ~inp.source_found
    THEN Ret(FALSE, Msg(<<Line("ppa:maas-committers/latest-deps couldn't be found.",
                               <<>>)>>))
    ELSE IF ~inp.found
    THEN Ret(FALSE, NotFoundMessage(step.ppa_owner, step.ppa_name))
    ELSE MAASPPA_check_packages_copied(step.current_series, inp.source_ppa, inp.ppa)

\* inp is [source_found, source_ppa, found, ppa]: the lookups of
\* ppa:<me>/maas-<ppa_name> and of the step's own archive
PackagesCopiedToReleasePPA_check(p, step, inp) ==
    IF ~inp.source_found
    THEN Ret(FALSE, NotFoundMessage(p.lp_me, <<"maas-">> \o step.ppa_name))
    ELSE IF ~inp.found
    THEN Ret(FALSE, NotFoundMessage(step.ppa_owner, step.ppa_name))
    ELSE MAASPPA_check_packages_copied(step.current_series, inp.source_ppa, inp.ppa)

-----------------------------------------------------------------------------
(* Local checks: build artifacts, version files, git.                      *)

maas_ == <<"m", "a", "a", "s", "_">>
OrigTarGz == <<".", "o", "r", "i", "g", ".", "t", "a", "r", ".", "g", "z">>

\* fnmatch of a file name of build_pkg/ against <prefix>*<suffix>
GlobMatch(name, prefix, suffix) ==
    /\ Len(name) >= Len(prefix) + Len(suffix)
    /\ StartsWith(name, prefix)
    /\ EndsWith(name, suffix)

\* glob.glob(f"build_pkg/maas_{package_version}-*-g.{short_rev}.orig.tar.gz"),
\* files being the names of the files of build_pkg/
PackageBuilt_glob(p, files) ==
    LET short_rev == p.git_short_rev
        package_version == Replace(p.version, <<"-">>, <<"~">>)
    IN {f \in files : GlobMatch(f, maas_ \o package_version \o <<"-">>,
                                <<"-", "g", ".">> \o short_rev \o OrigTarGz)}

PackageBuilt_check(p, step, files) ==
    LET tar_gzs == PackageBuilt_glob(p, files)
    IN IF Cardinality(tar_gzs) = 0
       THEN Ret(FALSE, Msg(<<Line(
                "No orig.tar.gz could be found for the current revision", <<>>)>>))
       ELSE IF Cardinality(tar_gzs) # 1 THEN Raise("ValueError")
       ELSE Ret(TRUE, None)

\* inp is the return code of `git diff-index --quiet HEAD`
NoUncommittedChanges_check(p, step, returncode) ==
    IF returncode = 0 THEN Ret(TRUE, None)
    ELSE Ret(FALSE, Msg(<<Line("Commit and push all changes before releasing.", <<>>)>>))

\* inp is [setup_version, changelog]: get_branch_setup_version() and the
\* stdout of `dpkg-parsechangelog -S version`
MAASVersion_check(p, step, inp) ==
    IF inp.setup_version # p.python_version
    THEN Ret(FALSE, Msg(<<Line("setup.cfg has {}, run utilities/release-prepare",
                               <<inp.setup_version>>)>>))
    ELSE LET no_epoch_version == Last(SplitOnce(inp.changelog, <<":">>))
             no_ubuntu_version == SplitOnce(no_epoch_version, <<"-">>)[1]
             package_version == Replace(no_ubuntu_version, <<"~">>, <<"-">>)
         IN IF package_version # p.version
            THEN Ret(FALSE, Msg(<<Line(
                    "changelog has {} (expected {}), run utilities/release-prepare",
                    <<package_version, p.version>>)>>))
            ELSE Ret(TRUE, None)

\* urlparse(url).path for a URL without query and fragment
urlparse_path(url) ==
    IF ~Contains(url, <<":", "/", "/">>) THEN url
    ELSE LET rest == SplitOnce(url, <<":", "/", "/">>)[2]
             k == Find(rest, <<"/">>)
         IN IF k = 0 THEN <<>> ELSE SubSeq(rest, k, Len(rest))

\* remotes is the list of [name, url] of `git remote` / `git remote get-url`;
\* returns [none, name], none standing for the implicit `return None`
RECURSIVE official_remote_loop(_, _)
official_remote_loop(remotes, k) ==
    IF k > Len(remotes) THEN [none |-> TRUE, name |-> <<>>]
    ELSE IF urlparse_path(remotes[k].url) = <<"/", "maas">>
         THEN [none |-> FALSE, name |-> remotes[k].name]
         ELSE official_remote_loop(remotes, k + 1)

get_official_maas_remote(remotes) == official_remote_loop(remotes, 1)

\* lines is the stdout of `git branch -r --contains <commit>`, split into lines
get_remote_branches_containing(lines) ==
    [k \in 1..Len(lines) |-> SplitOnce(Strip(lines[k]), <<"/">>)]

Master == <<"m", "a", "s", "t", "e", "r">>

\* the loop `for remote, branch_name in remote_branches`, from entry k on
RECURSIVE commit_in_branch_loop(_, _, _, _)
commit_in_branch_loop(remote_branches, k, official, release_branch_name) ==
    IF k > Len(remote_branches)
    THEN Ret(FALSE, Msg(<<Line("Current HEAD is not in {}/{}",
                               <<IF official.none THEN <<"None">> ELSE official.name,
                                 release_branch_name>>)>>))
    ELSE IF Len(remote_branches[k]) # 2 THEN Raise("ValueError")
    ELSE IF /\ ~official.none
            /\ remote_branches[k][1] = official.name
            /\ remote_branches[k][2] = release_branch_name
         THEN Ret(TRUE, None)
         ELSE commit_in_branch_loop(remote_branches, k + 1, official,
                                    release_branch_name)

\* CommitInRemoteBranch.check expecting the major version for every version
CommitInRemoteBranch_check_major_branch(p, step, inp) ==
    commit_in_branch_loop(get_remote_branches_containing(inp.branches), 1,
                          get_official_maas_remote(inp.remotes), p.major_version)

\* inp is [remotes, branches]: the remotes of the repository and the stdout
\* lines of `git branch -r --contains HEAD`
CommitInRemoteBranch_check(p, step, inp) ==
    LET release_branch_name ==
            IF \/ Contains(p.version, <<"b", "e", "t", "a">>)
               \/ Contains(p.version, <<"a", "l", "p", "h", "a">>)
            THEN Master
            ELSE p.major_version
        official_maas_remote == get_official_maas_remote(inp.remotes)
        remote_branches == get_remote_branches_containing(inp.branches)
    IN commit_in_branch_loop(remote_branches, 1, official_maas_remote,
                             release_branch_name)

\* ReleaseTagged.check without the test for an annotated tag
ReleaseTagged_check_any_tag(p, step, inp) ==
    LET tag_name == p.version
        tagged_revision == inp.tagged_revision
        official_maas_remote == get_official_maas_remote(inp.remotes)
        remote_branches == get_remote_branches_containing(inp.branches)
    IN IF tagged_revision = <<>>
       THEN Ret(FALSE, Msg(<<Line("Release hasn't been tagged yet.", <<>>)>>))
       ELSE IF tagged_revision # p.git_short_rev
       THEN Ret(FALSE, Msg(<<Line("{} points to {} instead of {}",
                                  <<tag_name, tagged_revision, p.git_short_rev>>)>>))
       ELSE IF \/ official_maas_remote.none
               \/ ~\E k \in 1..Len(remote_branches) :
                       remote_branches[k][1] = official_maas_remote.name
       THEN Ret(FALSE, Msg(<<Line("{} tag is not pushed to {}",
                    <<tag_name, IF official_maas_remote.none THEN <<"None">>
                                ELSE official_maas_remote.name>>)>>))
       ELSE Ret(TRUE, None)

\* inp is [tagged_revision, tag_name_rev, remotes, branches]:
\* get_git_short_rev(get_tag_commit(tag_name)), get_git_short_rev(tag_name),
\* the remotes and the stdout lines of `git branch -r --contains <tag_name>`
ReleaseTagged_check(p, step, inp) ==
    LET tag_name == p.version
        tagged_revision == inp.tagged_revision
        official_maas_remote == get_official_maas_remote(inp.remotes)
        remote_branches == get_remote_branches_containing(inp.branches)
    IN IF tagged_revision = inp.tag_name_rev
       THEN Ret(FALSE, Msg(<<Line("The {} isn't an annotated tag", <<tag_name>>)>>))
       ELSE IF tagged_revision = <<>>
       THEN Ret(FALSE, Msg(<<Line("Release hasn't been tagged yet.", <<>>)>>))
       ELSE IF tagged_revision # p.git_short_rev
       THEN Ret(FALSE, Msg(<<Line("{} points to {} instead of {}",
                                  <<tag_name, tagged_revision, p.git_short_rev>>)>>))
       ELSE IF \E k \in 1..Len(remote_branches) : Len(remote_branches[k]) # 2
       THEN Raise("ValueError")
       ELSE IF \/ official_maas_remote.none
               \/ ~\E k \in 1..Len(remote_branches) :
                       remote_branches[k][1] = official_maas_remote.name
       THEN Ret(FALSE, Msg(<<Line("{} tag is not pushed to {}",
                    <<tag_name, IF official_maas_remote.none THEN <<"None">>
                                ELSE official_maas_remote.name>>)>>))
       ELSE Ret(TRUE, None)

-----------------------------------------------------------------------------
(* ReleasePreparer and the steps main gives it.                            *)

NoPreparer ==
    [constructed |-> FALSE, version |-> <<>>, python_version |-> <<>>,
     major_version |-> <<>>, git_short_rev |-> <<>>, lp_me |-> <<>>]

\* ReleasePreparer(version, snapstore_auth, lp); git_short_rev is the stdout of
\* `git rev-parse --short HEAD`, lp_me the name of the Launchpad user lp.me
ReleasePreparer_init(version, git_short_rev, lp_me) ==
    [constructed |-> TRUE,
     version |-> version,
     python_version |->
        Replace(Replace(Replace(version, <<"-", "a", "l", "p", "h", "a">>, <<"a">>),
                        <<"-", "b", "e", "t", "a">>, <<"b">>),
                <<"-", "r", "c">>, <<"r", "c">>),
     major_version |-> get_major_version(version),
     git_short_rev |-> git_short_rev,
     lp_me |-> lp_me]

\* a ReleaseStep object: its class and the attributes its constructor sets
Step(cls) ==
    [cls |-> cls, snap_name |-> <<>>, ppa_type |-> "", ppa_name |-> <<>>,
     ppa_owner |-> <<>>, channel |-> <<>>, current_series |-> <<>>]

SnapTrack_init(p, snap_name) == [Step("SnapTrack") EXCEPT !.snap_name = snap_name]

MAASPPA_init(p, cls, ppa_type) ==
    [Step(cls) EXCEPT
        !.ppa_type = ppa_type,
        !.ppa_name = IF ppa_type = "candidate"
                     THEN p.major_version \o <<"-next">>
                     ELSE IF ppa_type = "release-preparation"
                     THEN <<"maas-">> \o p.major_version \o <<"-next">>
                     ELSE p.major_version,
        !.ppa_owner = IF ppa_type = "release-preparation" THEN p.lp_me ELSE Maas,
        !.current_series = Focal]

SnapsUploaded_init(p) == [Step("SnapsUploaded") EXCEPT !.snap_name = Maas]

SnapsInChannel_init(p, channel) ==
    [Step("SnapsInChannel") EXCEPT !.snap_name = Maas, !.channel = channel]

\* the list main assigns to preparer.steps; channel is
\* get_snap_release_channel(preparer.version)
MainSteps(p, channel) ==
    << Step("MAASVersion"),
       Step("NoUncommittedChanges"),
       Step("CommitInRemoteBranch"),
       SnapTrack_init(p, Maas),
       SnapTrack_init(p, <<"maas-test-db">>),
       MAASPPA_init(p, "MAASPPA", "stable"),
       MAASPPA_init(p, "MAASPPA", "candidate"),
       MAASPPA_init(p, "MAASPPA", "release-preparation"),
       Step("PackageBuilt"),
       MAASPPA_init(p, "MAASPackagePublished", "release-preparation"),
       SnapsUploaded_init(p),
       SnapsInChannel_init(p, channel \o <<"/", "release-prep">>),
       MAASPPA_init(p, "PackagesCopiedFromDeps", "release-preparation"),
       MAASPPA_init(p, "PackagesCopiedToReleasePPA", "candidate"),
       SnapsInChannel_init(p, channel),
       Step("ReleaseTagged") >>

\* step.title
Title(p, step) ==
    IF step.cls = "NoUncommittedChanges" THEN Line("No uncommitted changes", <<>>)
    ELSE IF step.cls = "CommitInRemoteBranch"
    THEN Line("Release commit in remote branch", <<>>)
    ELSE IF step.cls = "MAASVersion" THEN Line("MAAS version set in branch", <<>>)
    ELSE IF step.cls = "SnapTrack"
    THEN Line("{} {} snap track", <<step.snap_name, p.major_version>>)
    ELSE IF step.cls = "MAASPPA"
    THEN Line("MAAS {} PPA ({}/{})", <<<<step.ppa_type>>, step.ppa_owner, step.ppa_name>>)
    ELSE IF step.cls = "MAASPackagePublished"
    THEN Line("MAAS package published in ({}/{})", <<step.ppa_owner, step.ppa_name>>)
    ELSE IF step.cls = "PackagesCopiedFromDeps"
    THEN Line("Packages copied from ppa:maas-committers/latest-deps", <<>>)
    ELSE IF step.cls = "PackagesCopiedToReleasePPA"
    THEN Line("Packages copied to ppa:{}/{}", <<step.ppa_owner, step.ppa_name>>)
    ELSE IF step.cls = "PackageBuilt" THEN Line("MAAS source package is built", <<>>)
    ELSE IF step.cls = "SnapsUploaded"
    THEN Line("Snaps have been built and uploaded to the store.", <<>>)
    ELSE IF step.cls = "SnapsInChannel"
    THEN Line("Snaps have been released to {}", <<step.channel>>)
    ELSE Line("Release has been tagged", <<>>)

\* step.check(), observing the external state inp
Check(p, step, inp) ==
    IF step.cls = "NoUncommittedChanges" THEN NoUncommittedChanges_check(p, step, inp)
    ELSE IF step.cls = "CommitInRemoteBranch" THEN CommitInRemoteBranch_check(p, step, inp)
    ELSE IF step.cls = "MAASVersion" THEN MAASVersion_check(p, step, inp)
    ELSE IF step.cls = "SnapTrack" THEN SnapTrack_check(p, step, inp)
    ELSE IF step.cls = "MAASPPA" THEN MAASPPA_check(p, step, inp)
    ELSE IF step.cls = "MAASPackagePublished" THEN MAASPackagePublished_check(p, step, inp)
    ELSE IF step.cls = "PackagesCopiedFromDeps" THEN PackagesCopiedFromDeps_check(p, step, inp)
    ELSE IF step.cls = "PackagesCopiedToReleasePPA"
    THEN PackagesCopiedToReleasePPA_check(p, step, inp)
    ELSE IF step.cls = "PackageBuilt" THEN PackageBuilt_check(p, step, inp)
    ELSE IF step.cls = "SnapsUploaded" THEN SnapsUploaded_check(p, step, inp)
    ELSE IF step.cls = "SnapsInChannel" THEN SnapsInChannel_check(p, step, inp)
    ELSE ReleaseTagged_check(p, step, inp)

-----------------------------------------------------------------------------
(* The inputs of the program: command lines and external states.           *)

V310 == <<"3", ".", "1", ".", "0">>
VBeta3 == V310 \o <<"-", "b", "e", "t", "a", "3">>
VRc1 == V310 \o <<"-", "r", "c", "1">>
VAlpha1 == V310 \o <<"-", "a", "l", "p", "h", "a", "1">>
VDev == V310 \o <<"-", "d", "e", "v">>

\* the versions given on the command line
Versions == {V310, VBeta3, VAlpha1, VDev}

\* the version as release-prepare writes it to setup.cfg
PyOf(v) ==
    IF v = VBeta3 THEN V310 \o <<"b", "3">>
    ELSE IF v = VRc1 THEN V310 \o <<"r", "c", "1">>
    ELSE IF v = VAlpha1 THEN V310 \o <<"a", "1">>
    ELSE v

\* the version as it appears in package versions
DebOf(v) ==
    IF v = VBeta3 THEN V310 \o <<"~", "b", "e", "t", "a", "3">>
    ELSE IF v = VRc1 THEN V310 \o <<"~", "r", "c", "1">>
    ELSE IF v = VAlpha1 THEN V310 \o <<"~", "a", "l", "p", "h", "a", "1">>
    ELSE v

V300 == <<"3", ".", "0", ".", "0">>
Rev == <<"a", "b", "1">>
OtherRev == <<"c", "d", "2">>
TagObjectRev == <<"e", "f", "3">>
Me == <<"me">>

\* the subsequences of pool
RECURSIVE PickFrom(_, _, _)
PickFrom(pool, S, k) ==
    IF k > Len(pool) THEN <<>>
    ELSE (IF k \in S THEN <<pool[k]>> ELSE <<>>) \o PickFrom(pool, S, k + 1)

SubSeqsOf(pool) == {PickFrom(pool, S, 1) : S \in SUBSET (1..Len(pool))}

\* setup.cfg and debian/changelog
Ubuntu1 == <<"-", "0ubuntu1", "\n">>

Env_MAASVersion ==
    [setup_version : {V310, PyOf(VBeta3), V300},
     changelog : {<<"1", ":">> \o V310 \o Ubuntu1,
                  <<"1", ":">> \o DebOf(VBeta3) \o Ubuntu1,
                  DebOf(VBeta3) \o Ubuntu1,
                  <<"1", ":">> \o V300 \o Ubuntu1}]

Nominal_MAASVersion(p) ==
    [setup_version |-> PyOf(p.version),
     changelog |-> <<"1", ":">> \o DebOf(p.version) \o Ubuntu1]

\* git remotes and remote branches
OriginRemote ==
    [name |-> <<"origin">>,
     url |-> <<"https", ":", "/", "/", "git.launchpad.net", "/", "maas">>]
ForkRemote ==
    [name |-> <<"fork">>,
     url |-> <<"https", ":", "/", "/", "git.launchpad.net", "/", "~me", "/", "maas">>]

RemoteLists == {<<OriginRemote>>, <<ForkRemote>>, <<ForkRemote, OriginRemote>>}

BranchLinePool ==
    << <<" ", " ", "origin", "/", "3", ".", "1">>,
       <<" ", " ", "origin", "/">> \o Master,
       <<" ", " ", "fork", "/">> \o Master >>

Env_Git == [remotes : RemoteLists, branches : SubSeqsOf(BranchLinePool)]

Nominal_Git ==
    [remotes |-> <<OriginRemote>>,
     branches |-> <<BranchLinePool[1], BranchLinePool[2]>>]

Env_ReleaseTagged ==
    [tagged_revision : {<<>>, Rev, OtherRev},
     tag_name_rev : {<<>>, Rev, TagObjectRev},
     remotes : {<<OriginRemote>>, <<ForkRemote>>},
     branches : {<<>>, <<BranchLinePool[1]>>, <<BranchLinePool[3]>>}]

Nominal_ReleaseTagged ==
    [tagged_revision |-> Rev, tag_name_rev |-> TagObjectRev,
     remotes |-> <<OriginRemote>>, branches |-> <<BranchLinePool[1]>>]

\* snap store responses
RawText == <<Line("<the text of the response>", <<>>)>>

Response(status_code, json, has_error_list, error_list, revisions, text) ==
    [status_code |-> status_code, json |-> json,
     has_error_list |-> has_error_list, error_list |-> error_list,
     revisions |-> revisions, text |-> text]

ErrorEntries ==
    { [code |-> NeedsRefresh, has_extra |-> FALSE, permission |-> <<>>],
      [code |-> PermissionRequired, has_extra |-> TRUE,
       permission |-> <<"package_release">>],
      [code |-> PermissionRequired, has_extra |-> FALSE, permission |-> <<>>],
      [code |-> "user-not-ready", has_extra |-> FALSE, permission |-> <<>>] }

ErrorLists ==
    {<<>>} \cup {<<e>> : e \in ErrorEntries}
           \cup {<<e, f>> : e \in ErrorEntries, f \in ErrorEntries}

\* the bodies a response of any status is taken with
Bodies ==
    { Response(0, "invalid", FALSE, <<>>, <<>>, <<>>),
      Response(0, "invalid", FALSE, <<>>, <<>>, RawText),
      Response(0, "dict", FALSE, <<>>, <<>>, RawText),
      Response(0, "dict", TRUE, <<>>, <<>>, RawText),
      Response(0, "list", FALSE, <<>>, <<>>, RawText) }
    \cup {Response(0, "dict", TRUE, <<e>>, <<>>, RawText) : e \in ErrorEntries}

\* the bodies a response of status 401 or 403 is taken with
AuthBodies ==
    Bodies \cup {Response(0, "dict", TRUE, el, <<>>, RawText) : el \in ErrorLists}

OtherChannel == <<"latest", "/", "edge">>

\* the concatenation of a sequence of sequences
RECURSIVE Flatten(_)
Flatten(ss) == IF ss = <<>> THEN <<>> ELSE Head(ss) \o Flatten(Tail(ss))

\* a store history, in groups of revisions, out of which the revision lists
\* are taken
RevisionPool(p, channel) ==
    LET Revision(version, arch, revision, channels) ==
            [version |-> version, arch |-> arch, revision |-> revision,
             channels |-> channels]
        built == DebOf(p.version) \o <<"-", "9", "-", "g", ".">> \o Rev
    IN << <<Revision(built, Amd64, 1, <<OtherChannel, channel>>)>>,
          <<Revision(built, Arm64, 2, <<channel>>),
            Revision(built, Ppc64el, 3, <<channel>>)>>,
          <<Revision(built, S390x, 4, <<channel>>)>>,
          <<Revision(built, Amd64, 5, <<OtherChannel>>)>>,
          <<Revision(DebOf(p.version) \o <<"-", "8", "-", "g", ".">> \o OtherRev,
                     S390x, 6, <<channel>>)>>,
          <<Revision(built, <<"i386">>, 7, <<>>)>> >>

\* the responses to the snap-track-update request
Env_Track ==
    {[b EXCEPT !.status_code = s] : s \in {200, 404, 500}, b \in Bodies}
    \cup {[b EXCEPT !.status_code = s] : s \in {401, 403}, b \in AuthBodies}

Nominal_Track == Response(200, "dict", FALSE, <<>>, <<>>, RawText)

\* the responses to the history request
Env_Store(p, channel) ==
    Env_Track
    \cup {Response(200, "list", FALSE, <<>>, revs, RawText) :
            revs \in {Flatten(g) : g \in SubSeqsOf(RevisionPool(p, channel))}}

Nominal_Store(p, channel) ==
    Response(200, "list", FALSE, <<>>,
             Flatten(SubSeq(RevisionPool(p, channel), 1, 3)), RawText)

\* Launchpad archives
Archive(processors, sources, binaries) ==
    [processors |-> processors, sources |-> sources, binaries |-> binaries]

NoArchive == Archive({}, <<>>, <<>>)

Source(name, version, status, series) ==
    [source_package_name |-> name, source_package_version |-> version,
     status |-> status, distro_series |-> series]

Binary(name, version, status, arch) ==
    [binary_package_name |-> name, binary_package_version |-> version,
     status |-> status,
     distro_arch_series_link |->
        <<"https:", "/", "/", "api.launchpad.net", "/", "devel", "/", "ubuntu",
          "/", "focal", "/">> \o arch]

Env_MAASPPA ==
    {[found |-> FALSE, ppa |-> NoArchive]}
    \cup {[found |-> TRUE, ppa |-> Archive(procs, <<>>, <<>>)] :
            procs \in {BuildArchSet, BuildArchSet \ {S390x}, {Amd64, <<"i386">>}}}

Nominal_MAASPPA == [found |-> TRUE, ppa |-> Archive(BuildArchSet, <<>>, <<>>)]

\* the version of the packages built from revision rev of version v
PackageVersion(v, rev) ==
    <<"1", ":">> \o DebOf(v) \o <<"-", "9", "-", "g", ".">> \o rev \o <<"-", "0ubuntu1">>

SourceLists(p) ==
    LET good == Source(Maas, PackageVersion(p.version, Rev), "Published", Focal)
    IN { <<>>,
         <<good>>,
         <<Source(Maas, DebOf(p.version) \o <<"-", "9">>, "Published", Focal)>>,
         <<Source(Maas, DebOf(p.version), "Published", Focal)>>,
         <<Source(Maas, PackageVersion(p.version, OtherRev), "Published", Focal)>>,
         <<Source(Maas, <<"1", ":">> \o V300 \o <<"-", "9">>, "Published", Focal)>>,
         <<Source(Maas, PackageVersion(p.version, Rev), "Superseded", Focal)>>,
         <<Source(<<"maas-deps">>, PackageVersion(p.version, Rev), "Published", Focal)>>,
         <<good, Source(Maas, PackageVersion(p.version, Rev), "Superseded", Focal)>>,
         <<good, good>>,
         <<Source(Maas, PackageVersion(p.version, OtherRev), "Published", Focal),
           good>> }

\* the binary publications, in groups, out of which the archives are taken
BinaryPool(p) ==
    << <<Binary(Maas, PackageVersion(p.version, Rev), "Published", Amd64)>>,
       <<Binary(Maas, PackageVersion(p.version, Rev), "Published", Arm64),
         Binary(Maas, PackageVersion(p.version, Rev), "Published", Ppc64el)>>,
       <<Binary(Maas, PackageVersion(p.version, Rev), "Published", S390x)>>,
       <<Binary(Maas, PackageVersion(p.version, OtherRev), "Published", S390x)>>,
       <<Binary(Maas, DebOf(p.version) \o <<"-", "9">>, "Published", Amd64)>>,
       <<Binary(Maas, PackageVersion(p.version, Rev), "Superseded", Arm64)>> >>

Nominal_MAASPackagePublished(p) ==
    [found |-> TRUE,
     ppa |-> Archive(BuildArchSet,
                     <<Source(Maas, PackageVersion(p.version, Rev), "Published", Focal)>>,
                     Flatten(SubSeq(BinaryPool(p), 1, 3)))]

Env_MAASPackagePublished(p) ==
    {[found |-> FALSE, ppa |-> NoArchive]}
    \cup {[found |-> TRUE,
           ppa |-> Archive(BuildArchSet, srcs, Flatten(SubSeq(BinaryPool(p), 1, 3)))] :
            srcs \in SourceLists(p)}
    \cup {[found |-> TRUE,
           ppa |-> Archive(BuildArchSet,
                    <<Source(Maas, PackageVersion(p.version, Rev), "Published", Focal)>>,
                    bins)] :
            bins \in {Flatten(g) : g \in SubSeqsOf(BinaryPool(p))}}

SourcePool ==
    << Source(<<"python-a">>, <<"1">>, "Published", Focal),
       Source(<<"python-b">>, <<"2">>, "Published", Focal),
       Source(<<"python-c">>, <<"1">>, "Superseded", Focal) >>

TargetPool ==
    << Source(<<"python-a">>, <<"1">>, "Published", Focal),
       Source(<<"python-b">>, <<"2">>, "Published", Focal),
       Source(<<"python-b">>, <<"1">>, "Published", Focal),
       Source(<<"python-a">>, <<"1">>, "Published", <<"jammy">>) >>

Env_PackagesCopied ==
    {[source_found |-> FALSE, source_ppa |-> NoArchive, found |-> f, ppa |-> NoArchive] :
        f \in BOOLEAN}
    \cup {[source_found |-> TRUE, source_ppa |-> NoArchive, found |-> FALSE,
           ppa |-> NoArchive]}
    \cup {[source_found |-> TRUE, source_ppa |-> Archive(BuildArchSet, src, <<>>),
           found |-> TRUE, ppa |-> Archive(BuildArchSet, tgt, <<>>)] :
            src \in SubSeqsOf(SourcePool), tgt \in SubSeqsOf(TargetPool)}

Nominal_PackagesCopied ==
    [source_found |-> TRUE, source_ppa |-> Archive(BuildArchSet, SourcePool, <<>>),
     found |-> TRUE, ppa |-> Archive(BuildArchSet, SubSeq(TargetPool, 1, 2), <<>>)]

\* the files of build_pkg/
TarballName(v, n, rev) ==
    maas_ \o DebOf(v) \o <<"-">> \o n \o <<"-", "g", ".">> \o rev \o OrigTarGz

BuildPkgFiles(p) ==
    { TarballName(p.version, <<"9">>, Rev),
      TarballName(p.version, <<"1", "0">>, Rev),
      TarballName(p.version, <<"9">>, OtherRev),
      TarballName(V300, <<"9">>, Rev),
      maas_ \o DebOf(p.version) \o <<"-", "g", ".">> \o Rev \o OrigTarGz }

Env_PackageBuilt(p) == SUBSET BuildPkgFiles(p)

Nominal_PackageBuilt(p) == {TarballName(p.version, <<"9">>, Rev)}

\* the external states a step's check() can observe
Inputs(p, step) ==
    IF step.cls = "NoUncommittedChanges" THEN {0, 1}
    ELSE IF step.cls = "CommitInRemoteBranch" THEN Env_Git
    ELSE IF step.cls = "MAASVersion" THEN Env_MAASVersion
    ELSE IF step.cls = "SnapTrack" THEN Env_Track
    ELSE IF step.cls \in {"SnapsUploaded", "SnapsInChannel"}
    THEN Env_Store(p, step.channel)
    ELSE IF step.cls = "MAASPPA" THEN Env_MAASPPA
    ELSE IF step.cls = "MAASPackagePublished" THEN Env_MAASPackagePublished(p)
    ELSE IF step.cls \in {"PackagesCopiedFromDeps", "PackagesCopiedToReleasePPA"}
    THEN Env_PackagesCopied
    ELSE IF step.cls = "PackageBuilt" THEN Env_PackageBuilt(p)
    ELSE Env_ReleaseTagged

\* the external state of a release that has been carried out completely
NominalInput(p, step) ==
    IF step.cls = "NoUncommittedChanges" THEN 0
    ELSE IF step.cls = "CommitInRemoteBranch" THEN Nominal_Git
    ELSE IF step.cls = "MAASVersion" THEN Nominal_MAASVersion(p)
    ELSE IF step.cls = "SnapTrack" THEN Nominal_Track
    ELSE IF step.cls \in {"SnapsUploaded", "SnapsInChannel"}
    THEN Nominal_Store(p, step.channel)
    ELSE IF step.cls = "MAASPPA" THEN Nominal_MAASPPA
    ELSE IF step.cls = "MAASPackagePublished" THEN Nominal_MAASPackagePublished(p)
    ELSE IF step.cls \in {"PackagesCopiedFromDeps", "PackagesCopiedToReleasePPA"}
    THEN Nominal_PackagesCopied
    ELSE IF step.cls = "PackageBuilt" THEN Nominal_PackageBuilt(p)
    ELSE Nominal_ReleaseTagged

-----------------------------------------------------------------------------
(* What is printed.                                                        *)

NoLine == Line("", <<>>)

\* print(step.title, end=": ")
TitleItem(title) == [item |-> "title", indent |-> "", text |-> title, ok |-> TRUE]
\* print("\N{check mark}") when ok, print("\N{large red circle}") otherwise
GlyphItem(ok) == [item |-> "glyph", indent |-> "", text |-> NoLine, ok |-> ok]
\* print("  " + str(line))
LineItem(line) == [item |-> "line", indent |-> "  ", text |-> line, ok |-> TRUE]
\* print()
BlankItem == [item |-> "blank", indent |-> "", text |-> NoLine, ok |-> TRUE]
\* print("All checks PASSED!")
PassedItem ==
    [item |-> "text", indent |-> "", text |-> Line("All checks PASSED!", <<>>),
     ok |-> TRUE]

\* the lines main prints to stderr when the macaroon is missing
MacaroonNotFound ==
    <<Line("Macaroon couldn't be found", <<>>)>> \o get_macaroon_refresh_help

FailedSummary == "Some checks FAILED, proceed with caution"

\* how main ended: it returned `value`, or `error` escaped from it
NotExited == [kind |-> "running", value |-> "", error |-> ""]
Returned(value) == [kind |-> "return", value |-> value, error |-> ""]
Escaped(error) == [kind |-> "exception", value |-> "", error |-> error]

\* the exit status sys.exit(main()) gives the process
ExitStatus(e) ==
    IF e.kind = "exception" THEN 1
    ELSE IF e.value = "None" THEN 0
    ELSE 1

NoInput == <<>>
NoOutcome == [kind |-> "none", succeeded |-> FALSE, message |-> None, error |-> ""]

\* no function is called on its own
NoArg == [fn |-> "none"]
NotCalled == [called |-> FALSE]

\* no maasPowerInput directive exists
NoField == [name |-> "none"]
NoDirective ==
    /\ field = NoField
    /\ parameters = <<>>
    /\ ngModel = <<>>
    /\ lastValue = <<>>
    /\ element = "none"

-----------------------------------------------------------------------------
(* main and ReleasePreparer.run.                                           *)

Init ==
    /\ arg = NoArg
    /\ ret = NotCalled
    /\ NoDirective
    /\ argv_version \in Versions
    /\ macaroon_file \in {"absent", "nosection", "ok"}
    /\ pc = "main"
    /\ preparer = NoPreparer
    /\ steps = <<>>
    /\ idx = 0
    /\ success = FALSE
    /\ message = None
    /\ all_good = TRUE
    /\ lineno = 0
    /\ stdout = <<>>
    /\ stderr = <<>>
    /\ exit = NotExited
    /\ evaluated = <<>>
    /\ results = <<>>
    /\ last_input = NoInput
    /\ last_outcome = NoOutcome
    /\ deviations = 0

\* LoadMacaroon looking for the file only, not for its login.ubuntu.com section
LoadMacaroon_file_only ==
    /\ pc = "main"
    /\ UNCHANGED <<call_vars, directive_vars>>
    /\ IF macaroon_file # "absent"
       THEN /\ pc' = "construct"
            /\ UNCHANGED <<stderr, exit>>
       ELSE /\ stderr' = stderr \o MacaroonNotFound
            /\ exit' = Returned("1")
            /\ pc' = "exit"
    /\ UNCHANGED <<argv_version, macaroon_file, preparer, steps, idx, success,
                   message, all_good, lineno, stdout, evaluated, results,
                   last_input, last_outcome, deviations>>

\* main: config.read("release.macaroon"); config["login.ubuntu.com"]
LoadMacaroon ==
    /\ pc = "main"
    /\ UNCHANGED <<call_vars, directive_vars>>
    /\ IF macaroon_file = "ok"
       THEN /\ pc' = "construct"
            /\ UNCHANGED <<stderr, exit>>
       ELSE /\ stderr' = stderr \o MacaroonNotFound
            /\ exit' = Returned("1")
            /\ pc' = "exit"
    /\ UNCHANGED <<argv_version, macaroon_file, preparer, steps, idx, success,
                   message, all_good, lineno, stdout, evaluated, results,
                   last_input, last_outcome, deviations>>

\* main: preparer = ReleasePreparer(args.version, macaroon_auth(macaroon), lp)
ConstructPreparer ==
    /\ pc = "construct"
    /\ UNCHANGED <<call_vars, directive_vars>>
    /\ preparer' = ReleasePreparer_init(argv_version, Rev, Me)
    /\ pc' = "steps"
    /\ UNCHANGED <<argv_version, macaroon_file, steps, idx, success, message,
                   all_good, lineno, stdout, stderr, exit, evaluated, results,
                   last_input, last_outcome, deviations>>

\* main: preparer.steps = [...]; the list display calls
\* get_snap_release_channel(preparer.version), which may raise
BuildSteps ==
    /\ pc = "steps"
    /\ UNCHANGED <<call_vars, directive_vars>>
    /\ LET channel == get_snap_release_channel(preparer.version)
       IN IF channel.raised
          THEN /\ exit' = Escaped(channel.error)
               /\ pc' = "exit"
               /\ UNCHANGED <<steps, idx, evaluated>>
          ELSE /\ steps' = MainSteps(preparer, channel.value)
               /\ evaluated' = [k \in 1..Len(steps') |-> 0]
               /\ idx' = 1
               /\ pc' = "title"
               /\ UNCHANGED exit
    /\ UNCHANGED <<argv_version, macaroon_file, preparer, success, message,
                   all_good, lineno, stdout, stderr, results, last_input,
                   last_outcome, deviations>>

\* the external states check() can observe after d checks observed a
\* non-nominal one
ObservableInputs(p, step, d) ==
    IF d < MaxDeviations THEN Inputs(p, step) ELSE {NominalInput(p, step)}

\* the position after steps[idx] has been dealt with
NextStep == IF idx + 1 > Len(steps) THEN "summary" ELSE "title"

\* RunTitle holding the title back until check() has returned
RunTitle_deferred ==
    /\ pc = "title"
    /\ UNCHANGED <<call_vars, directive_vars>>
    /\ pc' = "check"
    /\ UNCHANGED <<argv_version, macaroon_file, preparer, steps, idx, success,
                   message, all_good, lineno, stdout, stderr, exit, evaluated,
                   results, last_input, last_outcome, deviations>>

\* run: print(step.title, end=": ")
RunTitle ==
    /\ pc = "title"
    /\ UNCHANGED <<call_vars, directive_vars>>
    /\ stdout' = Append(stdout, TitleItem(Title(preparer, steps[idx])))
    /\ pc' = "check"
    /\ UNCHANGED <<argv_version, macaroon_file, preparer, steps, idx, success,
                   message, all_good, lineno, stderr, exit, evaluated, results,
                   last_input, last_outcome, deviations>>

\* run: success, message = step.check()
RunCheck ==
    /\ pc = "check"
    /\ UNCHANGED <<call_vars, directive_vars>>
    /\ \E inp \in ObservableInputs(preparer, steps[idx], deviations) :
        LET outcome == Check(preparer, steps[idx], inp)
        IN /\ deviations' = IF inp = NominalInput(preparer, steps[idx])
                            THEN deviations
                            ELSE deviations + 1
           /\ last_input' = inp
           /\ last_outcome' = outcome
           /\ evaluated' = [evaluated EXCEPT ![idx] = @ + 1]
           /\ IF outcome.kind = "raise"
              THEN /\ exit' = Escaped(outcome.error)
                   /\ pc' = "exit"
                   /\ UNCHANGED <<success, message, results>>
              ELSE /\ success' = outcome.succeeded
                   /\ message' = outcome.message
                   /\ results' = Append(results, outcome)
                   /\ pc' = "glyph"
                   /\ UNCHANGED exit
    /\ UNCHANGED <<argv_version, macaroon_file, preparer, steps, idx, all_good,
                   lineno, stdout, stderr>>

\* RunGlyph with `all_good = success`: the last step decides
RunGlyph_last_wins ==
    /\ pc = "glyph"
    /\ UNCHANGED <<call_vars, directive_vars>>
    /\ all_good' = success
    /\ stdout' = Append(stdout, GlyphItem(success))
    /\ IF Truthy(message)
       THEN /\ pc' = "lines"
            /\ lineno' = 1
            /\ idx' = idx
       ELSE /\ pc' = NextStep
            /\ lineno' = 0
            /\ idx' = idx + 1
    /\ last_input' = NoInput
    /\ last_outcome' = NoOutcome
    /\ UNCHANGED <<argv_version, macaroon_file, preparer, steps, success,
                   message, stderr, exit, evaluated, results, deviations>>

\* run: if not success: all_good = False; print the glyph
RunGlyph ==
    /\ pc = "glyph"
    /\ UNCHANGED <<call_vars, directive_vars>>
    /\ all_good' = IF ~success THEN FALSE ELSE all_good
    /\ stdout' = Append(stdout, GlyphItem(success))
    /\ IF Truthy(message)
       THEN /\ pc' = "lines"
            /\ lineno' = 1
            /\ idx' = idx
       ELSE /\ pc' = NextStep
            /\ lineno' = 0
            /\ idx' = idx + 1
    /\ last_input' = NoInput
    /\ last_outcome' = NoOutcome
    /\ UNCHANGED <<argv_version, macaroon_file, preparer, steps, success,
                   message, stderr, exit, evaluated, results, deviations>>

\* run: for line in message.splitlines(): print("  " + str(line))
RunLine ==
    /\ pc = "lines"
    /\ UNCHANGED <<call_vars, directive_vars>>
    /\ stdout' = Append(stdout, LineItem(message.lines[lineno]))
    /\ IF lineno < Len(message.lines)
       THEN /\ lineno' = lineno + 1
            /\ UNCHANGED <<pc, idx>>
       ELSE /\ lineno' = 0
            /\ pc' = NextStep
            /\ idx' = idx + 1
    /\ UNCHANGED <<argv_version, macaroon_file, preparer, steps, success,
                   message, all_good, stderr, exit, evaluated, results,
                   last_input, last_outcome, deviations>>

\* run: print(); then print("All checks PASSED!") or return the failure summary
RunSummary ==
    /\ pc = "summary"
    /\ UNCHANGED <<call_vars, directive_vars>>
    /\ IF all_good
       THEN /\ stdout' = stdout \o <<BlankItem, PassedItem>>
            /\ exit' = Returned("None")
       ELSE /\ stdout' = Append(stdout, BlankItem)
            /\ exit' = Returned(FailedSummary)
    /\ pc' = "exit"
    /\ UNCHANGED <<argv_version, macaroon_file, preparer, steps, idx, success,
                   message, all_good, lineno, stderr, evaluated, results,
                   last_input, last_outcome, deviations>>

\* sys.exit(main()): a string is printed to stderr, an exception as a traceback
SysExit ==
    /\ pc = "exit"
    /\ UNCHANGED <<call_vars, directive_vars>>
    /\ stderr' = IF exit.kind = "exception"
                 THEN Append(stderr, Line("Traceback: {}", <<<<exit.error>>>>))
                 ELSE IF exit.value \notin {"None", "1"}
                 THEN Append(stderr, Line(exit.value, <<>>))
                 ELSE stderr
    /\ pc' = "done"
    /\ UNCHANGED <<argv_version, macaroon_file, preparer, steps, idx, success,
                   message, all_good, lineno, stdout, exit, evaluated, results,
                   last_input, last_outcome, deviations>>

Next ==
    \/ LoadMacaroon
    \/ ConstructPreparer
    \/ BuildSteps
    \/ RunTitle
    \/ RunCheck
    \/ RunGlyph
    \/ RunLine
    \/ RunSummary
    \/ SysExit

Spec == Init /\ [][Next]_vars

\* release-status has not been started
NotStarted ==
    /\ argv_version = <<>>
    /\ macaroon_file = "absent"
    /\ pc = "none"
    /\ preparer = NoPreparer
    /\ steps = <<>>
    /\ idx = 0
    /\ success = FALSE
    /\ message = None
    /\ all_good = TRUE
    /\ lineno = 0
    /\ stdout = <<>>
    /\ stderr = <<>>
    /\ exit = NotExited
    /\ evaluated = <<>>
    /\ results = <<>>
    /\ last_input = NoInput
    /\ last_outcome = NoOutcome
    /\ deviations = 0

-----------------------------------------------------------------------------
(* The functions of release-status and release-prepare, each called on its *)
(* own with arguments drawn from bounded sets.                             *)

\* the strings the version argument is drawn from: one to four dot-separated
\* components, with and without a pre-release suffix
VersionBases ==
    { <<"3">>,
      <<"3", ".", "1">>,
      V310,
      <<"2", ".", "9", ".", "3">>,
      <<"3", ".", "1", ".", "0", ".", "1">> }

VersionSuffixes ==
    { <<>>,
      <<"-", "b", "e", "t", "a", "1">>,
      <<"-", "b", "e", "t", "a", "3">>,
      <<"-", "r", "c", "1">>,
      <<"-", "a", "l", "p", "h", "a", "1">>,
      <<"-", "d", "e", "v">>,
      <<"-">>,
      <<"-", "b", "e", "t", "a", ".", "1">>,
      <<"-", "r", "c", "2", "-", "b", "e", "t", "a">>,
      <<"-", "p", "r", "e", "-", "r", "c", "1">> }

VersionStrings == {b \o x : b \in VersionBases, x \in VersionSuffixes}

\* a call that returned `v` or raised `e`, as the value of ret
Called(r) == [called |-> TRUE, raised |-> r.raised, value |-> r.value, error |-> r.error]

Call_get_major_version ==
    /\ arg.fn = "get_major_version"
    /\ ~ret.called
    /\ ret' = Called(Val(get_major_version(arg.version)))
    /\ UNCHANGED <<arg, main_vars, directive_vars>>

Call_get_version_grade ==
    /\ arg.fn = "get_version_grade"
    /\ ~ret.called
    /\ ret' = Called(get_version_grade(arg.version))
    /\ UNCHANGED <<arg, main_vars, directive_vars>>

Call_get_snap_release_channel ==
    /\ arg.fn = "get_snap_release_channel"
    /\ ~ret.called
    /\ ret' = Called(get_snap_release_channel(arg.version))
    /\ UNCHANGED <<arg, main_vars, directive_vars>>

\* CommitInRemoteBranch(preparer).check() for a preparer of any version
Call_CommitInRemoteBranch_check ==
    /\ arg.fn = "CommitInRemoteBranch.check"
    /\ ~ret.called
    /\ ret' = [called |-> TRUE,
               outcome |-> CommitInRemoteBranch_check(
                               ReleasePreparer_init(arg.version, Rev, Me),
                               Step("CommitInRemoteBranch"), arg.git)]
    /\ UNCHANGED <<arg, main_vars, directive_vars>>

-----------------------------------------------------------------------------
(* utilities/release-prepare.                                              *)

Digits == {"0", "1", "2", "3", "4", "5", "6", "7", "8", "9"}

\* [0-9]+ (or [2-9]+, [1-9]* ...): s is made of characters of `chars` only
MadeOf(s, chars) == \A k \in 1..Len(s) : s[k] \in chars

\* the number of leading characters of s that are digits
RECURSIVE LeadingDigits(_)
LeadingDigits(s) ==
    IF s = <<>> \/ s[1] \notin Digits THEN 0 ELSE 1 + LeadingDigits(Tail(s))

\* grep -Eq "^[2-9]+\.[0-9]+\.[0-9]+((a|b|rc)[0-9]+)?$"
MatchesVersionRegex(version) ==
    LET parts == Split(version, <<".">>)
    IN /\ Len(parts) = 3
       /\ parts[1] # <<>> /\ MadeOf(parts[1], Digits \ {"0", "1"})
       /\ parts[2] # <<>> /\ MadeOf(parts[2], Digits)
       /\ LET n == LeadingDigits(parts[3])
              rest == SubSeq(parts[3], n + 1, Len(parts[3]))
              num == IF StartsWith(rest, <<"r", "c">>)
                     THEN SubSeq(rest, 3, Len(rest))
                     ELSE SubSeq(rest, 2, Len(rest))
          IN /\ n >= 1
             /\ \/ rest = <<>>
                \/ /\ \/ StartsWith(rest, <<"a">>)
                      \/ StartsWith(rest, <<"b">>)
                      \/ StartsWith(rest, <<"r", "c">>)
                   /\ num # <<>>
                   /\ MadeOf(num, Digits)

\* sed 's/old/new/': the first occurrence of old is replaced
SedS(s, old, new) ==
    IF ~Contains(s, old) THEN s
    ELSE LET k == Find(s, old)
         IN SubSeq(s, 1, k - 1) \o new \o SubSeq(s, k + Len(old), Len(s))

\* sed 's/a/<x>alpha/; tend; s/b/<x>beta/; tend; s/rc/<x>rc/; :end'
SedGrade(s, x) ==
    IF Contains(s, <<"a">>) THEN SedS(s, <<"a">>, x \o <<"a", "l", "p", "h", "a">>)
    ELSE IF Contains(s, <<"b">>) THEN SedS(s, <<"b">>, x \o <<"b", "e", "t", "a">>)
    ELSE SedS(s, <<"r", "c">>, x \o <<"r", "c">>)

\* tag_version leaving the release candidates as they are
tag_version_no_rc(version) ==
    IF Contains(version, <<"r", "c">>) THEN version ELSE SedGrade(version, <<"-">>)

tag_version(version) == SedGrade(version, <<"-">>)

\* head -1 debian/changelog | sed -n 's|maas (\([1-9]*\):.*|\1|p', for a
\* changelog whose first line is "maas (<changelog_version>) ..."
changelog_epoch(changelog_version) ==
    IF ~Contains(changelog_version, <<":">>) THEN <<>>
    ELSE LET before == SplitOnce(changelog_version, <<":">>)[1]
         IN IF MadeOf(before, Digits \ {"0"}) THEN before ELSE <<>>

deb_version(version, changelog_version) ==
    LET v == SedGrade(version, <<"~">>)
        epoch == changelog_epoch(changelog_version)
    IN IF epoch # <<>>
       THEN epoch \o <<":">> \o v \o <<"-", "0ubuntu1">>
       ELSE v \o <<"-", "0ubuntu1">>

\* echo "${version}" | cut -d'.' -f-2
cut_f_2(version) ==
    LET parts == Split(version, <<".">>)
    IN IF Len(parts) < 2 THEN version ELSE parts[1] \o <<".">> \o parts[2]

\* the script, from `version="$1"` on; a is [version, current_branch, heads,
\* tree_clean, setup_version, changelog_version]: the argument, the branch
\* checked out, the branches of origin, whether the tree is clean, and the
\* versions setup.cfg and debian/changelog hold.  Gives the exit status and
\* the two versions as the script leaves them.
release_prepare(a) ==
    LET major_version == cut_f_2(a.version)
        Exit(files) == [status |-> 1, setup_version |-> files[1],
                        changelog_version |-> files[2]]
        untouched == <<a.setup_version, a.changelog_version>>
    IN IF a.version = <<>> THEN Exit(untouched)
       ELSE IF ~MatchesVersionRegex(a.version) THEN Exit(untouched)
       ELSE IF /\ ~Contains(major_version, a.current_branch)
               /\ \E k \in 1..Len(a.heads) : Contains(major_version, a.heads[k])
       THEN Exit(untouched)
       ELSE IF ~a.tree_clean THEN Exit(untouched)
       ELSE IF a.setup_version = a.version THEN Exit(untouched)
       ELSE [status |-> 0, setup_version |-> a.version,
             changelog_version |-> deb_version(a.version, a.changelog_version)]

ReleasePrepare ==
    /\ arg.fn = "release-prepare"
    /\ ~ret.called
    /\ ret' = [called |-> TRUE, prepared |-> release_prepare(arg), checked |-> FALSE,
               preparer |-> NoPreparer, outcome |-> NoOutcome]
    /\ UNCHANGED <<arg, main_vars, directive_vars>>

\* release-status <tag_version> in the tree release-prepare left: the
\* preparer and MAASVersion(preparer).check()
ReleaseStatus_MAASVersion ==
    /\ arg.fn = "release-prepare"
    /\ ret.called
    /\ ~ret.checked
    /\ ret.prepared.status = 0
    /\ LET p == ReleasePreparer_init(tag_version(arg.version), Rev, Me)
           inp == [setup_version |-> ret.prepared.setup_version,
                   changelog |-> ret.prepared.changelog_version \o <<"\n">>]
       IN ret' = [called |-> TRUE, prepared |-> ret.prepared, checked |-> TRUE,
                  preparer |-> p,
                  outcome |-> MAASVersion_check(p, Step("MAASVersion"), inp)]
    /\ UNCHANGED <<arg, main_vars, directive_vars>>

\* the python versions release-prepare is given
PythonVersions ==
    {major \o <<".">> \o minor \o <<".">> \o micro \o suffix :
        major \in {<<"3">>, <<"2", "9">>},
        minor \in {<<"1">>, <<"1", "0">>},
        micro \in {<<"0">>},
        suffix \in {<<>>, <<"a", "1">>, <<"b", "3">>, <<"r", "c", "1">>,
                    <<"b", "1", "0">>}}
    \cup {<<>>, <<"3", ".", "1">>, <<"1", ".", "0", ".", "0">>, VBeta3,
          <<"3", ".", "1", ".", "0", "r", "c">>}

\* the versions at the head of debian/changelog: without epoch and with the
\* epochs 1, 2 and 10
ChangelogVersions ==
    {epoch \o V300 \o <<"-", "0ubuntu1">> :
        epoch \in {<<>>, <<"1", ":">>, <<"2", ":">>, <<"1", "0", ":">>}}

ReleasePrepareArgs ==
    [fn : {"release-prepare"},
     version : PythonVersions,
     current_branch : {Master, <<"3", ".", "1">>},
     heads : {<<Master>>, <<Master, <<"3", ".", "1">> >>},
     tree_clean : BOOLEAN,
     setup_version : {V300, <<"3", ".", "1", ".", "0", "b", "3">>},
     changelog_version : ChangelogVersions]

\* the versions CommitInRemoteBranch.check is called for
BranchVersions == {V310, VBeta3, VRc1, VAlpha1, VDev, <<"2", ".", "9", ".", "3">>}

InitCalls ==
    /\ arg \in [fn : {"get_major_version", "get_version_grade",
                      "get_snap_release_channel"},
                version : VersionStrings]
            \cup [fn : {"CommitInRemoteBranch.check"}, version : BranchVersions,
                  git : Env_Git]
            \cup ReleasePrepareArgs
    /\ ret = NotCalled
    /\ NotStarted
    /\ NoDirective

NextCalls ==
    \/ Call_get_major_version
    \/ Call_get_version_grade
    \/ Call_get_snap_release_channel
    \/ Call_CommitInRemoteBranch_check
    \/ ReleasePrepare
    \/ ReleaseStatus_MAASVersion

SpecCalls == InitCalls /\ [][NextCalls]_vars

-----------------------------------------------------------------------------
(* The maasPowerInput directive of power_parameters.js.  One directive is  *)
(* created for one field of the power type; its isolate scope binds        *)
(* scope.ngModel two-way ('=') to ngModel.parameters[field.name] of the    *)
(* parent scope.  JavaScript is run to completion: link and the digest it  *)
(* is called from are one step, and so are a user's edit and its digest.   *)

\* JavaScript values: undefined, a string, a choice [value, label]
Undefined == [type |-> "undefined", value |-> "", label |-> ""]
Str(s) == [type |-> "string", value |-> s, label |-> ""]
Choice(v, l) == [type |-> "array", value |-> v, label |-> l]

\* angular.isObject(value)
isObject(value) == value.type = "array"

FieldNames == {"power_address", "power_pass"}
FieldTypes == {"string", "mac_address", "choice", "password"}
FieldChoices == <<Choice("ipmi", "IPMI"), Choice("amt", "AMT"), Choice("ipmi", "IPMI 2.0")>>
FieldDefaults == {Undefined, Str(""), Str("ipmi"), Str("virsh")}
EntryValues == {Undefined, Str("ipmi"), Str("10.0.0.1"), FieldChoices[1], FieldChoices[2]}

\* the watch of the '=' binding: [parent, child, last] after it has run on the
\* entry of the parent scope, scope.ngModel and lastValue
parentValueWatch(parent, child, last) ==
    IF parent = child THEN [parent |-> parent, child |-> child, last |-> parent]
    ELSE IF parent # last
    THEN [parent |-> parent, child |-> parent, last |-> parent]
    ELSE [parent |-> child, child |-> child, last |-> child]

\* the loop `for(i = 0; i < scope.field.choices.length; i++)`, from i on:
\* the value scope.ngModel holds after it
RECURSIVE default_choice_loop(_, _, _)
default_choice_loop(f, i, current) ==
    IF i > Len(f.choices) THEN current
    ELSE IF f.default = Str(f.choices[i].value) THEN f.choices[i]
    ELSE default_choice_loop(f, i + 1, current)

\* link: [threw, html, ngModel] -- whether it threw, the element built and
\* the value of scope.ngModel after it
link(f, current) ==
    IF f.field_type \in {"string", "mac_address"}
    THEN [threw |-> FALSE, html |-> "input",
          ngModel |-> IF ~isObject(current) THEN f.default ELSE current]
    ELSE IF f.field_type = "choice"
    THEN [threw |-> FALSE, html |-> "select",
          ngModel |-> IF ~isObject(current)
                      THEN default_choice_loop(f, 1, current)
                      ELSE current]
    ELSE [threw |-> TRUE, html |-> "unlinked", ngModel |-> current]

\* the directive is linked, and the digest runs the binding's watch
Link ==
    /\ element = "unlinked"
    /\ LET linked == link(field, ngModel)
           synced == parentValueWatch(parameters[field.name], linked.ngModel,
                                      lastValue)
       IN /\ element' = IF linked.threw THEN "threw" ELSE linked.html
          /\ parameters' = [parameters EXCEPT ![field.name] = synced.parent]
          /\ ngModel' = synced.child
          /\ lastValue' = synced.last
    /\ UNCHANGED <<field, main_vars, call_vars>>

\* the user types into the <input>, whose ng-model is the entry of the parent
\* scope; the digest runs the binding's watch
UserEdit ==
    /\ element = "input"
    /\ \E s \in {"", "10.0.0.1", "10.0.0.2"} :
        LET synced == parentValueWatch(Str(s), ngModel, lastValue)
        IN /\ parameters' = [parameters EXCEPT ![field.name] = synced.parent]
           /\ ngModel' = synced.child
           /\ lastValue' = synced.last
    /\ UNCHANGED <<field, element, main_vars, call_vars>>

\* the user picks an option of the <select>
UserSelect ==
    /\ element = "select"
    /\ \E i \in 1..Len(field.choices) :
        LET synced == parentValueWatch(field.choices[i], ngModel, lastValue)
        IN /\ parameters' = [parameters EXCEPT ![field.name] = synced.parent]
           /\ ngModel' = synced.child
           /\ lastValue' = synced.last
    /\ UNCHANGED <<field, element, main_vars, call_vars>>

\* the directive has been created for a field: the binding has copied the
\* entry of the parent scope to scope.ngModel
InitDirective ==
    /\ field \in [name : FieldNames, field_type : FieldTypes,
                  default : FieldDefaults, required : BOOLEAN,
                  choices : {FieldChoices}]
    /\ parameters \in [FieldNames -> EntryValues]
    /\ ngModel = parameters[field.name]
    /\ lastValue = parameters[field.name]
    /\ element = "unlinked"
    /\ arg = NoArg
    /\ ret = NotCalled
    /\ NotStarted

NextDirective ==
    \/ Link
    \/ UserEdit
    \/ UserSelect

SpecDirective == InitDirective /\ [][NextDirective]_vars


-----------------------------------------------------------------------------
(* Properties of main and ReleasePreparer.run.                             *)

RunStarted == steps # <<>>
Ended == pc \in {"exit", "done"}
\* check() has just ended (returned or raised) and idx is the step it belongs to
Checked == last_outcome.kind # "none"
StepClass == IF idx \in 1..Len(steps) THEN steps[idx].cls ELSE ""

\* C1: in ReleasePreparer.run every step of the list is evaluated exactly
\* once before run finishes, whatever the outcome of each step's check().
C1_EveryStepEvaluatedOnce ==
    (RunStarted /\ Ended) => \A k \in 1..Len(steps) : evaluated[k] = 1

\* what run prints for steps[k], given what its check() returned
PrintedFor(k) ==
    << [item |-> "title", indent |-> "", text |-> Title(preparer, steps[k]), ok |-> TRUE],
       [item |-> "glyph", indent |-> "", text |-> NoLine, ok |-> results[k].succeeded] >>
    \o [j \in 1..Len(results[k].message.lines) |->
            [item |-> "line", indent |-> "  ", text |-> results[k].message.lines[j],
             ok |-> TRUE]]

\* what run prints for steps[1..n]
RECURSIVE PrintedUpTo(_)
PrintedUpTo(n) == IF n = 0 THEN <<>> ELSE PrintedUpTo(n - 1) \o PrintedFor(n)

\* C2: run deals with the steps in list order, one at a time: title, then
\* check(), then the glyph, then the message lines indented by two spaces;
\* when the check() of a step starts, the output of all earlier steps and the
\* step's own title have been printed, and nothing else.
C2_OutputInStepOrder ==
    /\ pc = "title" =>
        /\ Len(results) = idx - 1
        /\ stdout = PrintedUpTo(idx - 1)
    /\ pc = "check" =>
        /\ Len(results) = idx - 1
        /\ evaluated[idx] = 0
        /\ stdout = PrintedUpTo(idx - 1)
                        \o <<[item |-> "title", indent |-> "",
                              text |-> Title(preparer, steps[idx]), ok |-> TRUE]>>
    /\ pc = "glyph" =>
        /\ Len(results) = idx
        /\ stdout = PrintedUpTo(idx - 1) \o SubSeq(PrintedFor(idx), 1, 1)
    /\ pc = "lines" =>
        /\ Len(results) = idx
        /\ stdout = PrintedUpTo(idx - 1) \o SubSeq(PrintedFor(idx), 1, 2 + lineno - 1)
    /\ pc = "summary" =>
        /\ Len(results) = Len(steps)
        /\ stdout = PrintedUpTo(Len(steps))

\* a step with a message of several lines has been printed and the next
\* step's check() is about to start
C2_Witness ==
    /\ pc = "check"
    /\ idx > 1
    /\ Len(results[idx - 1].message.lines) > 1
    /\ ~results[idx - 1].succeeded

\* run went through the whole list and returned
RunCompleted ==
    /\ RunStarted
    /\ Ended
    /\ exit.kind = "return"

AllSucceeded == \A k \in 1..Len(results) : results[k].succeeded

\* C3: after all steps have been evaluated, run prints "All checks PASSED!"
\* and returns None (exit status 0) iff every check() returned succeeded =
\* True; otherwise it returns a non-empty string and does not print it.
C3_PassedIffAllSucceeded ==
    /\ RunCompleted =>
        /\ Len(results) = Len(steps)
        /\ AllSucceeded <=>
            /\ exit.value = "None"
            /\ ExitStatus(exit) = 0
            /\ \E k \in 1..Len(stdout) : stdout[k].text.t = "All checks PASSED!"
        /\ ~AllSucceeded =>
            /\ exit.value \notin {"None", ""}
            /\ ExitStatus(exit) # 0
            /\ ~\E k \in 1..Len(stdout) : stdout[k].text.t = "All checks PASSED!"
    /\ ~RunCompleted =>
        ~\E k \in 1..Len(stdout) : stdout[k].text.t = "All checks PASSED!"

\* a run in which every check succeeded has ended
C3_Witness ==
    /\ pc = "done"
    /\ RunCompleted
    /\ AllSucceeded

\* C4: without release.macaroon or without its login.ubuntu.com section main
\* prints the remediation instructions and returns 1; no ReleasePreparer is
\* constructed and no check() is executed.
C4_MissingMacaroonReturns1 ==
    macaroon_file # "ok" =>
        /\ preparer = NoPreparer
        /\ ~RunStarted
        /\ evaluated = <<>>
        /\ stdout = <<>>
        /\ pc \in {"main", "exit", "done"}
        /\ Ended =>
            /\ exit = Returned("1")
            /\ stderr = <<Line("Macaroon couldn't be found", <<>>)>>
                            \o get_macaroon_refresh_help

C4_Witness == macaroon_file = "nosection" /\ pc = "done"

\* the versions whose '-' suffix starts with neither 'beta' nor 'rc'
UnrecognizedGrade == {VAlpha1, VDev}

\* C5: with a version whose '-' suffix is no recognized grade the run aborts
\* with a configuration error before any check() is executed and before any
\* title is printed.
C5_UnrecognizedGradeAborts ==
    argv_version \in UnrecognizedGrade =>
        /\ ~RunStarted
        /\ evaluated = <<>>
        /\ stdout = <<>>
        /\ pc \in {"main", "construct", "steps", "exit", "done"}
        /\ (Ended /\ macaroon_file = "ok") =>
            /\ exit.kind = "exception"
            /\ exit.error = "RuntimeError: Unknown version suffix"

C5_Witness ==
    /\ argv_version = VAlpha1
    /\ macaroon_file = "ok"
    /\ preparer.constructed
    /\ pc = "done"

-----------------------------------------------------------------------------
(* Properties of the checks.                                               *)

StoreClasses == {"SnapTrack", "SnapsUploaded", "SnapsInChannel"}

\* C6: whatever the status and the body of the store's response, the check()
\* of SnapTrack, SnapsUploaded and SnapsInChannel returns a (succeeded,
\* message) pair; no error escapes it.
C6_StoreChecksNeverRaise ==
    (Checked /\ StepClass \in StoreClasses) => last_outcome.kind = "return"

\* lines `part` occur in `lines`, consecutively
HasLines(lines, part) ==
    \E k \in 0..(Len(lines) - Len(part)) : SubSeq(lines, k + 1, k + Len(part)) = part

RefreshInstructions ==
    << Line("  Please refresh it:", <<>>),
       Line("    rm -f release.macaroon", <<>>),
       Line("    snapcraft export-login --snaps maas,maas-test-db \\", <<>>),
       Line("        --acls package_release,package_access release.macaroon", <<>>) >>

\* C7: a 401 or 403 response whose error_list has an entry with code
\* macaroon-needs-refresh makes the step fail with a message that holds the
\* refresh instructions and is not the raw response text; for 200 and 404
\* get_macaroon_auth_error returns None.
C7_NeedsRefreshGivesInstructions ==
    (Checked /\ StepClass \in StoreClasses) =>
        /\ ( /\ last_input.status_code \in {401, 403}
             /\ last_input.json = "dict"
             /\ last_input.has_error_list
             /\ \E k \in 1..Len(last_input.error_list) :
                    last_input.error_list[k].code = "macaroon-needs-refresh" )
           => /\ last_outcome.kind = "return"
              /\ ~last_outcome.succeeded
              /\ ~last_outcome.message.none
              /\ HasLines(last_outcome.message.lines, RefreshInstructions)
              /\ last_outcome.message.lines # last_input.text
        /\ last_input.status_code \in {200, 404}
           => get_macaroon_auth_error(last_input, steps[idx].snap_name) = Val(None)

\* the files of build_pkg/ that match the pattern for version v at revision Rev
MatchingTarballs(v, files) ==
    files \cap {TarballName(v, <<"9">>, Rev), TarballName(v, <<"1", "0">>, Rev)}

\* C8: PackageBuilt.check returns (True, None) iff exactly one file matches
\* the pattern; with no match and with several matches it returns succeeded
\* = False.
C8_PackageBuiltIffOneMatch ==
    (Checked /\ StepClass = "PackageBuilt") =>
        /\ last_outcome.kind = "return"
        /\ (last_outcome.succeeded /\ last_outcome.message.none)
            <=> Cardinality(MatchingTarballs(preparer.version, last_input)) = 1
        /\ Cardinality(MatchingTarballs(preparer.version, last_input)) # 1
            => ~last_outcome.succeeded

\* the archive has exactly one published maas source and, for each build
\* architecture, a published maas binary, all of the version built from Rev
ProperlyPublished(v, inp) ==
    /\ inp.found
    /\ LET published == {k \in 1..Len(inp.ppa.sources) :
                            /\ inp.ppa.sources[k].source_package_name = Maas
                            /\ inp.ppa.sources[k].status = "Published"
                            /\ inp.ppa.sources[k].distro_series = Focal}
       IN /\ Cardinality(published) = 1
          /\ \A k \in published :
                inp.ppa.sources[k].source_package_version = PackageVersion(v, Rev)
    /\ \A arch \in {Amd64, Arm64, Ppc64el, S390x} :
        \E k \in 1..Len(inp.ppa.binaries) :
            /\ inp.ppa.binaries[k].binary_package_name = Maas
            /\ inp.ppa.binaries[k].status = "Published"
            /\ Last(inp.ppa.binaries[k].distro_arch_series_link) = arch[1]
            /\ inp.ppa.binaries[k].binary_package_version = PackageVersion(v, Rev)

\* C9: MAASPackagePublished.check passes iff the archive exists, has exactly
\* one published maas source of the expected version and revision, and a
\* published maas binary of such a version for each build architecture; in
\* every other case it returns succeeded = False with a message.
C9_PublishedIffProperlyPublished ==
    (Checked /\ StepClass = "MAASPackagePublished") =>
        /\ last_outcome.kind = "return"
        /\ last_outcome.succeeded <=> ProperlyPublished(preparer.version, last_input)
        /\ ~last_outcome.succeeded => Truthy(last_outcome.message)

\* the (name, version) pairs of the Published sources of an archive in focal
PublishedPairs(ppa) ==
    { <<ppa.sources[k].source_package_name, ppa.sources[k].source_package_version>> :
        k \in {j \in 1..Len(ppa.sources) :
                /\ ppa.sources[j].status = "Published"
                /\ ppa.sources[j].distro_series = <<"focal">>} }

CopiedClasses == {"PackagesCopiedFromDeps", "PackagesCopiedToReleasePPA"}

\* C10: for existing source and target archives the packages-copied checks
\* pass iff the (name, version) pairs of the Published sources of the source
\* archive in the current series are a subset of those of the target archive;
\* on failure the message names a pair that is in the source archive and not
\* in the target archive.
C10_CopiedIffSubset ==
    ( /\ Checked
      /\ StepClass \in CopiedClasses
      /\ last_input.source_found
      /\ last_input.found )
    => /\ last_outcome.kind = "return"
       /\ last_outcome.succeeded
            <=> PublishedPairs(last_input.source_ppa) \subseteq PublishedPairs(last_input.ppa)
       /\ ~last_outcome.succeeded =>
            /\ ~last_outcome.message.none
            /\ Len(last_outcome.message.lines) = 1
            /\ last_outcome.message.lines[1].t = "{} {} has not been copied"
            /\ last_outcome.message.lines[1].args
                    \in PublishedPairs(last_input.source_ppa)
                            \ PublishedPairs(last_input.ppa)

\* a packages-copied check failed on a package whose name the target archive
\* holds in another version only
C10_Witness ==
    /\ Checked
    /\ StepClass \in CopiedClasses
    /\ last_input.source_found
    /\ last_input.found
    /\ ~last_outcome.succeeded
    /\ last_outcome.message.lines[1].args = <<<<"python-b">>, <<"2">>>>
    /\ \E k \in 1..Len(last_input.ppa.sources) :
        /\ last_input.ppa.sources[k].source_package_name = <<"python-b">>
        /\ last_input.ppa.sources[k].status = "Published"

-----------------------------------------------------------------------------
(* Properties of the version helpers.                                      *)

\* fn has been called on its own and has returned or raised
CalledFn(fn) == arg.fn = fn /\ ret.called

\* the first two dot-separated components of version, joined by a dot
FirstTwoComponents(version) ==
    LET parts == Split(version, <<".">>)
    IN IF Len(parts) = 1 THEN parts[1] ELSE parts[1] \o <<".">> \o parts[2]

\* C11: for every version string get_major_version returns the version
\* truncated to its first two dot-separated components, also for versions of
\* fewer or more than three components or with a dot in the suffix.
C11_MajorIsFirstTwoComponents ==
    CalledFn("get_major_version") =>
        /\ ~ret.raised
        /\ ret.value = FirstTwoComponents(arg.version)

\* the part of version after its first '-', <<>> when there is none
AfterDash(version) ==
    IF ~Contains(version, <<"-">>) THEN <<>>
    ELSE SubSeq(version, Find(version, <<"-">>) + 1, Len(version))

\* the grade the suffix of version stands for, "unknown" when it stands for none
GradeOf(version) ==
    IF ~Contains(version, <<"-">>) THEN "final"
    ELSE IF StartsWith(AfterDash(version), <<"b", "e", "t", "a">>) THEN "beta"
    ELSE IF StartsWith(AfterDash(version), <<"r", "c">>) THEN "rc"
    ELSE "unknown"

\* C12: get_version_grade returns final without '-', beta for a suffix
\* starting with beta, rc for one starting with rc, and raises its RuntimeError
\* for every other suffix; it returns nothing outside {final, rc, beta}.
C12_GradeBySuffix ==
    CalledFn("get_version_grade") =>
        /\ GradeOf(arg.version) # "unknown" =>
            /\ ~ret.raised
            /\ ret.value = GradeOf(arg.version)
        /\ GradeOf(arg.version) = "unknown" =>
            /\ ret.raised
            /\ ret.error = "RuntimeError: Unknown version suffix"
        /\ ~ret.raised => ret.value \in {"final", "rc", "beta"}

\* a version with an unknown suffix after a recognized one has been graded
C12_Witness ==
    /\ CalledFn("get_version_grade")
    /\ arg.version = <<"3", ".", "1", "-", "p", "r", "e", "-", "r", "c", "1">>
    /\ ret.raised

\* the risk level of the channel of a grade
RiskOf(grade) ==
    IF grade = "final" THEN <<"stable">>
    ELSE IF grade = "rc" THEN <<"candidate">>
    ELSE <<"beta">>

\* C13: for a version of a recognized grade get_snap_release_channel returns
\* <major>/stable, <major>/candidate or <major>/beta for the grades final, rc
\* and beta, <major> being get_major_version(version); 3.1.0-beta3 gives
\* 3.1/beta.
C13_ChannelOfGrade ==
    CalledFn("get_snap_release_channel") =>
        /\ GradeOf(arg.version) # "unknown" =>
            /\ ~ret.raised
            /\ ret.value = get_major_version(arg.version) \o <<"/">>
                                \o RiskOf(GradeOf(arg.version))
        /\ arg.version = VBeta3 =>
            ret.value = <<"3", ".", "1", "/", "beta">>
        /\ arg.version = VRc1 =>
            ret.value = <<"3", ".", "1", "/", "candidate">>
        /\ arg.version = V310 =>
            ret.value = <<"3", ".", "1", "/", "stable">>

\* the channel of a release candidate has been derived
C13_Witness ==
    /\ CalledFn("get_snap_release_channel")
    /\ arg.version = VRc1
    /\ ~ret.raised

-----------------------------------------------------------------------------
(* Properties of the git checks.                                           *)

\* the names of the remotes whose URL is <scheme>://<host>/maas
CanonicalRemotes(remotes) ==
    {remotes[k].name : k \in {j \in 1..Len(remotes) :
        LET url == remotes[j].url
        IN /\ Len(url) = 7
           /\ SubSeq(url, 2, 4) = <<":", "/", "/">>
           /\ url[5] # "/"
           /\ SubSeq(url, 6, 7) = <<"/", "maas">>}}

\* the branch a version is released from
ExpectedBranch(version) ==
    IF Contains(version, <<"a", "l", "p", "h", "a">>)
        \/ Contains(version, <<"b", "e", "t", "a">>)
    THEN <<"m", "a", "s", "t", "e", "r">>
    ELSE get_major_version(version)

\* C14: CommitInRemoteBranch.check expects master for alpha and beta versions
\* and the major version otherwise, and succeeds iff the remote branches
\* containing HEAD have the expected branch of the canonical remote; without
\* a canonical remote it fails.
C14_CommitInExpectedBranch ==
    CalledFn("CommitInRemoteBranch.check") =>
        /\ ret.outcome.kind = "return"
        /\ ret.outcome.succeeded <=>
            \E c \in CanonicalRemotes(arg.git.remotes) :
                \E k \in 1..Len(arg.git.branches) :
                    Strip(arg.git.branches[k])
                        = c \o <<"/">> \o ExpectedBranch(arg.version)
        /\ CanonicalRemotes(arg.git.remotes) = {} => ~ret.outcome.succeeded
        /\ ret.outcome.succeeded => ret.outcome.message = None
        /\ ~ret.outcome.succeeded => Truthy(ret.outcome.message)

\* the check failed for 3.1.0-beta3 with HEAD in <canonical>/3.1 only
C14_Witness ==
    /\ CalledFn("CommitInRemoteBranch.check")
    /\ arg.version = VBeta3
    /\ arg.git.remotes = <<ForkRemote, OriginRemote>>
    /\ arg.git.branches = <<BranchLinePool[1], BranchLinePool[3]>>
    /\ ~ret.outcome.succeeded

-----------------------------------------------------------------------------
(* Properties of the snap checks.                                          *)

\* the revisions of a store history that belong to the release of p
MatchingRevisions(p, revisions) ==
    {k \in 1..Len(revisions) :
        /\ StartsWith(revisions[k].version, Replace(p.version, <<"-">>, <<"~">>))
        /\ EndsWith(revisions[k].version, p.git_short_rev)}

AllArchsUploaded(p, revisions) ==
    \A arch \in {Amd64, Arm64, Ppc64el, S390x} :
        \E k \in MatchingRevisions(p, revisions) : revisions[k].arch = arch

AllArchsInChannel(p, revisions, channel) ==
    \A arch \in {Amd64, Arm64, Ppc64el, S390x} :
        \E k \in MatchingRevisions(p, revisions) :
            /\ revisions[k].arch = arch
            /\ \E c \in 1..Len(revisions[k].channels) :
                    revisions[k].channels[c] = channel

\* the store answered the history request with a list of revisions; a check
\* that raised has not passed (last_outcome.succeeded is FALSE)
GotHistory ==
    /\ Checked
    /\ StepClass \in {"SnapsUploaded", "SnapsInChannel"}
    /\ last_input.status_code = 200
    /\ last_input.json = "list"

\* C15: over the revisions of the history that match the version and the
\* short revision, SnapsUploaded.check passes iff each of the four
\* architectures has one, SnapsInChannel.check passes iff each has one that
\* lists the target channel; on one history SnapsInChannel passing implies
\* SnapsUploaded passing.
C15_SnapsPassIffAllArchs ==
    GotHistory =>
        /\ StepClass = "SnapsUploaded" =>
            (last_outcome.succeeded
                <=> AllArchsUploaded(preparer, last_input.revisions))
        /\ StepClass = "SnapsInChannel" =>
            /\ last_outcome.succeeded
                <=> AllArchsInChannel(preparer, last_input.revisions,
                                      steps[idx].channel)
            /\ last_outcome.succeeded =>
                SnapsUploaded_check(preparer, steps[idx], last_input).succeeded

-----------------------------------------------------------------------------
(* Properties of ReleaseTagged.                                            *)

\* (a) the tag is annotated, by the heuristic of the check
TagAnnotated(inp) == inp.tagged_revision # inp.tag_name_rev
\* (b) the tag points to the current revision
TagOnHead(p, inp) == inp.tagged_revision = p.git_short_rev
\* (c) the canonical remote has a branch that contains the tag
TagPushed(inp) ==
    \E c \in CanonicalRemotes(inp.remotes) :
        \E k \in 1..Len(inp.branches) :
            StartsWith(Strip(inp.branches[k]), c \o <<"/">>)

\* C16: ReleaseTagged.check succeeds iff (a), (b) and (c) hold; a missing tag
\* fails; each failing condition has its own message, tested in the order
\* (a), tag missing, (b), (c).
C16_TaggedIffAnnotatedOnHeadPushed ==
    (Checked /\ StepClass = "ReleaseTagged") =>
        LET first_line == IF last_outcome.message.lines = <<>> THEN ""
                          ELSE last_outcome.message.lines[1].t
        IN /\ last_outcome.kind = "return"
           /\ last_outcome.succeeded <=>
                /\ TagAnnotated(last_input)
                /\ TagOnHead(preparer, last_input)
                /\ TagPushed(last_input)
           /\ last_input.tagged_revision = <<>> => ~last_outcome.succeeded
           /\ first_line =
                IF ~TagAnnotated(last_input) THEN "The {} isn't an annotated tag"
                ELSE IF last_input.tagged_revision = <<>>
                THEN "Release hasn't been tagged yet."
                ELSE IF ~TagOnHead(preparer, last_input)
                THEN "{} points to {} instead of {}"
                ELSE IF ~TagPushed(last_input) THEN "{} tag is not pushed to {}"
                ELSE ""

\* a lightweight tag on the current revision, pushed, has been refused
C16_Witness ==
    /\ Checked
    /\ StepClass = "ReleaseTagged"
    /\ last_input.tagged_revision = Rev
    /\ last_input.tag_name_rev = Rev
    /\ TagPushed(last_input)
    /\ ~last_outcome.succeeded

-----------------------------------------------------------------------------
(* Properties of the maasPowerInput directive.                             *)

\* the choice of f whose value is the default of f, Undefined without one
DefaultChoice(f) ==
    IF \E i \in 1..Len(f.choices) : Str(f.choices[i].value) = f.default
    THEN f.choices[CHOOSE i \in 1..Len(f.choices) :
            /\ Str(f.choices[i].value) = f.default
            /\ \A j \in 1..(i - 1) : Str(f.choices[j].value) # f.default]
    ELSE Undefined

\* the step in which the directive is linked
Linking == element = "unlinked" /\ element' # "unlinked"

\* C17: linking sets ngModel.parameters[field.name] to the declared default
\* only if the entry is unset (string and mac_address: field.default; choice:
\* the pair whose value is the default, unset without one); an entry that
\* holds a string or a choice pair is left unchanged; another field_type
\* throws and writes nothing.
C17_LinkDefaultsUnsetOnly ==
    [][Linking =>
        LET before == parameters[field.name]
            after == parameters'[field.name]
        IN /\ \A n \in FieldNames \ {field.name} : parameters'[n] = parameters[n]
           /\ field.field_type \in {"string", "mac_address"} =>
                after = IF before = Undefined THEN field.default ELSE before
           /\ field.field_type = "choice" =>
                after = IF before = Undefined THEN DefaultChoice(field) ELSE before
           /\ field.field_type \notin {"string", "mac_address", "choice"} =>
                /\ element' = "threw"
                /\ after = before
    ]_vars

-----------------------------------------------------------------------------
(* Properties of release-prepare and MAASVersion together.                 *)

\* release-prepare accepted the version and left its commit
Prepared == CalledFn("release-prepare") /\ ret.prepared.status = 0

\* C18: for every python version v release-prepare accepts and every epoch of
\* the changelog, the python_version of the preparer of tag_version(v) is v,
\* and deb_version(v) without its epoch, cut at its first '-' and with '~'
\* replaced by '-', is tag_version(v): MAASVersion.check for tag_version(v)
\* passes on the files release-prepare left.
C18_PreparedVersionPasses ==
    (Prepared /\ ret.checked) =>
        LET written == ret.prepared.changelog_version
            no_epoch == IF Contains(written, <<":">>)
                        THEN SubSeq(written, Find(written, <<":">>) + 1, Len(written))
                        ELSE written
            upstream == SubSeq(no_epoch, 1, Find(no_epoch, <<"-">>) - 1)
        IN /\ ret.preparer.version = tag_version(arg.version)
           /\ ret.preparer.python_version = arg.version
           /\ ret.prepared.setup_version = arg.version
           /\ Replace(upstream, <<"~">>, <<"-">>) = tag_version(arg.version)
           /\ ret.outcome = Ret(TRUE, None)

\* a beta of a two-digit minor version, prepared over a changelog of epoch 2,
\* has been checked
C18_Witness ==
    /\ Prepared
    /\ ret.checked
    /\ arg.version = <<"3", ".", "1", "0", ".", "0", "b", "1", "0">>
    /\ arg.changelog_version = <<"2", ":">> \o V300 \o <<"-", "0ubuntu1">>
    /\ ret.prepared.changelog_version
            = <<"2", ":", "3", ".", "1", "0", ".", "0", "~", "b", "e", "t", "a",
                "1", "0", "-", "0ubuntu1">>

====
